---- MODULE Spec2Model ----
(***************************************************************************)
(* HomeworkHelper: the reset/completion state engine of the main window.   *)
(*                                                                         *)
(* Wall-clock values are naive local datetimes, written as whole seconds   *)
(* since the local midnight that starts day 0 of the model (2024-01-01).   *)
(* Stored timestamps are POSIX seconds, as datetime.timestamp() returns    *)
(* them.  Optional values (Python None) are sequences of length 0 or 1.    *)
(* Strings are sequences of one-character strings.                         *)
(***************************************************************************)
EXTENDS Integers, Sequences, FiniteSets, TLC

\* ------------------------------------------------------------------ bounds

\* Days of wall-clock time the clock may run through: days 1..MaxDay.
MaxDay == 2

\* ------------------------------------------------------------- primitives

None == <<>>
Some(x) == <<x>>

\* A mapping with no keys.
EmptyMap == [k \in {} |-> None]

\* Largest value a C int argument of datetime.time() can take.
CIntMax == 2147483647

DayLen == 24 * 3600

\* The machine's zone: Korea Standard Time, no daylight saving.
UtcOffset == 9 * 3600

\* POSIX timestamp of the model's day 0, 00:00:00 local (2024-01-01).
OriginTs == (19723 * DayLen) - UtcOffset

\* datetime.datetime.now().timestamp(): naive local datetime -> POSIX seconds.
Timestamp(dt) == dt + OriginTs

\* Variant: datetime.datetime.utcfromtimestamp(ts), the zone left out.
UtcFromTimestamp(ts) == (ts - OriginTs) - UtcOffset

\* datetime.datetime.fromtimestamp(ts): POSIX seconds -> naive local datetime.
FromTimestamp(ts) == ts - OriginTs

\* current_dt.date(): the calendar day of a naive datetime.
DateOf(dt) == dt \div DayLen

\* datetime.datetime.combine(date, time).
Combine(date, tod) == (date * DayLen) + tod

\* ---------------------------------------------------------------- strings

DigitChars == <<"0", "1", "2", "3", "4", "5", "6", "7", "8", "9">>

IsDigit(c) == \E i \in 1..Len(DigitChars) : DigitChars[i] = c

DigitVal(c) == (CHOOSE i \in 1..Len(DigitChars) : DigitChars[i] = c) - 1

\* str.split(sep): the pieces between the separators, empty pieces kept.
RECURSIVE Split(_, _)
Split(s, sep) ==
  IF \E i \in 1..Len(s) : s[i] = sep
  THEN LET i == CHOOSE k \in 1..Len(s) : s[k] = sep /\ \A j \in 1..(k - 1) : s[j] # sep
       IN  <<SubSeq(s, 1, i - 1)>> \o Split(SubSeq(s, i + 1, Len(s)), sep)
  ELSE <<s>>

\* str.strip() as int() applies it: leading and trailing blanks removed.
RECURSIVE Strip(_)
Strip(s) ==
  IF Len(s) > 0 /\ s[1] = " " THEN Strip(Tail(s))
  ELSE IF Len(s) > 0 /\ s[Len(s)] = " " THEN Strip(SubSeq(s, 1, Len(s) - 1))
  ELSE s

\* The magnitude of a digit string.  Python integers are unbounded; the model
\* keeps the value up to CIntMax and beyond it only how far it went:
\* over = 0 (val holds the value), 1 (exactly CIntMax + 1), 2 (larger).
RECURSIVE Magnitude(_, _)
Magnitude(digits, acc) ==
  IF Len(digits) = 0 THEN acc
  ELSE LET d == DigitVal(digits[1])
           next == IF acc.over > 0 THEN [over |-> 2, val |-> 0]
                   ELSE IF acc.val > (CIntMax - d) \div 10
                        THEN IF acc.val = (CIntMax - 7) \div 10 /\ d = 8
                             THEN [over |-> 1, val |-> 0]
                             ELSE [over |-> 2, val |-> 0]
                        ELSE [over |-> 0, val |-> (acc.val * 10) + d]
       IN  Magnitude(Tail(digits), next)

\* int(s): blanks stripped, an optional sign, then one or more digits.
\* kind "int": val is the value; "big": an integer outside the C int range;
\* "ValueError": int() raises.
IntOf(s) ==
  LET t == Strip(s)
      signed == Len(t) > 0 /\ t[1] \in {"+", "-"}
      neg == Len(t) > 0 /\ t[1] = "-"
      digits == IF signed THEN Tail(t) ELSE t
      m == Magnitude(digits, [over |-> 0, val |-> 0])
  IN  IF Len(digits) = 0 \/ \E i \in 1..Len(digits) : ~IsDigit(digits[i])
      THEN [kind |-> "ValueError", val |-> 0]
      ELSE IF m.over = 0 THEN [kind |-> "int", val |-> IF neg THEN 0 - m.val ELSE m.val]
      ELSE IF m.over = 1 /\ neg THEN [kind |-> "int", val |-> (0 - CIntMax) - 1]
      ELSE [kind |-> "big", val |-> 0]

\* Variant: hours counted 1..24.
DatetimeTimeOneBased(h, m) ==
  IF h.kind = "big" \/ m.kind = "big" THEN [kind |-> "OverflowError", tod |-> 0]
  ELSE IF h.val \notin 1..24 \/ m.val \notin 0..59 THEN [kind |-> "ValueError", tod |-> 0]
  ELSE [kind |-> "ok", tod |-> ((h.val - 1) * 3600) + (m.val * 60)]

\* datetime.time(hour, minute): the arguments are converted to C int first
\* (OverflowError), then range-checked (ValueError).
DatetimeTime(h, m) ==
  IF h.kind = "big" \/ m.kind = "big" THEN [kind |-> "OverflowError", tod |-> 0]
  ELSE IF h.val \notin 0..23 \/ m.val \notin 0..59 THEN [kind |-> "ValueError", tod |-> 0]
  ELSE [kind |-> "ok", tod |-> (h.val * 3600) + (m.val * 60)]

\* rt_hour, rt_minute = map(int, s.split(':')); datetime.time(rt_hour, rt_minute)
ParseRefreshTime(s) ==
  LET parts == Split(s, ":")
  IN  IF Len(parts) # 2 THEN [kind |-> "ValueError", tod |-> 0]
      ELSE LET rt_hour == IntOf(parts[1])
               rt_minute == IntOf(parts[2])
           IN  IF rt_hour.kind = "ValueError" \/ rt_minute.kind = "ValueError"
               THEN [kind |-> "ValueError", tod |-> 0]
               ELSE DatetimeTime(rt_hour, rt_minute)

\* ------------------------------------------------------- web button state

\* last_reset_dt: fromtimestamp(last_reset_timestamp) if it is truthy, else
\* None (None and 0.0 are both falsy).
LastResetDt(last_reset_timestamp) ==
  IF last_reset_timestamp = None \/ last_reset_timestamp[1] = 0 THEN None
  ELSE Some(FromTimestamp(last_reset_timestamp[1]))

\* Variant: a reset at the very instant of today's refresh does not count.
ButtonStateAtStrict(tod, last_reset_dt, current_dt) ==
  LET todays_refresh_event_dt == Combine(DateOf(current_dt), tod)
      yesterdays_refresh_event_dt == Combine(DateOf(current_dt) - 1, tod)
  IN  IF current_dt >= todays_refresh_event_dt
      THEN IF last_reset_dt = None \/ last_reset_dt[1] <= todays_refresh_event_dt
           THEN "RED" ELSE "GREEN"
      ELSE IF last_reset_dt = None THEN "DEFAULT"
           ELSE IF last_reset_dt[1] >= yesterdays_refresh_event_dt
                THEN "GREEN" ELSE "DEFAULT"

\* Variant: after today's refresh instant a click since yesterday's still counts.
ButtonStateAtSinceYesterday(tod, last_reset_dt, current_dt) ==
  LET yesterdays_refresh_event_dt == Combine(DateOf(current_dt) - 1, tod)
  IN  IF last_reset_dt = None
      THEN IF current_dt >= Combine(DateOf(current_dt), tod) THEN "RED" ELSE "DEFAULT"
      ELSE IF last_reset_dt[1] >= yesterdays_refresh_event_dt THEN "GREEN"
      ELSE IF current_dt >= Combine(DateOf(current_dt), tod) THEN "RED" ELSE "DEFAULT"

\* Variant: before today's refresh instant a click older than yesterday's
\* refresh instant leaves the button red.
ButtonStateAtRetainingRed(tod, last_reset_dt, current_dt) ==
  LET todays_refresh_event_dt == Combine(DateOf(current_dt), tod)
      yesterdays_refresh_event_dt == Combine(DateOf(current_dt) - 1, tod)
  IN  IF current_dt >= todays_refresh_event_dt
      THEN IF last_reset_dt = None \/ last_reset_dt[1] < todays_refresh_event_dt
           THEN "RED" ELSE "GREEN"
      ELSE IF last_reset_dt = None THEN "DEFAULT"
           ELSE IF last_reset_dt[1] >= yesterdays_refresh_event_dt
                THEN "GREEN" ELSE "RED"

\* The two branches of the comparison with today's refresh instant.
ButtonStateAt(tod, last_reset_dt, current_dt) ==
  LET todays_refresh_event_dt == Combine(DateOf(current_dt), tod)
      yesterdays_refresh_event_dt == Combine(DateOf(current_dt) - 1, tod)
  IN  IF current_dt >= todays_refresh_event_dt
      THEN IF last_reset_dt = None \/ last_reset_dt[1] < todays_refresh_event_dt
           THEN "RED" ELSE "GREEN"
      ELSE IF last_reset_dt = None THEN "DEFAULT"
           ELSE IF last_reset_dt[1] >= yesterdays_refresh_event_dt
                THEN "GREEN" ELSE "DEFAULT"

\* Variant: a shortcut without refresh time is taken to refresh at midnight.
DetermineWithMidnightDefault(shortcut, current_dt) ==
  IF shortcut.refresh_time_str = None \/ shortcut.refresh_time_str[1] = <<>>
  THEN ButtonStateAt(0, LastResetDt(shortcut.last_reset_timestamp), current_dt)
  ELSE LET t == ParseRefreshTime(shortcut.refresh_time_str[1])
       IN  IF t.kind = "ValueError" THEN "DEFAULT"
           ELSE IF t.kind = "OverflowError" THEN "OverflowError"
           ELSE ButtonStateAt(t.tod, LastResetDt(shortcut.last_reset_timestamp), current_dt)

\* The state of a shortcut's button: "RED", "GREEN" or "DEFAULT", or
\* "OverflowError" when that exception leaves the function.
_determine_web_button_state(shortcut, current_dt) ==
  IF shortcut.refresh_time_str = None \/ shortcut.refresh_time_str[1] = <<>>
  THEN "DEFAULT"
  ELSE LET t == ParseRefreshTime(shortcut.refresh_time_str[1])
       IN  IF t.kind = "ValueError" THEN "DEFAULT"
           ELSE IF t.kind = "OverflowError" THEN "OverflowError"
           ELSE ButtonStateAt(t.tod, LastResetDt(shortcut.last_reset_timestamp), current_dt)


\* ------------------------------------------------------------------ state

VARIABLES
  now,            \* the wall clock: datetime.datetime.now()
  eval_in,        \* the shortcut passed to one call of _determine_web_button_state
  eval_out,       \* None before that call returns, then Some(its outcome)
  web_shortcuts,  \* data_manager's shortcuts: id -> record
  web_buttons,    \* dynamic_web_buttons_layout: shortcut_id -> style applied
  last_click,     \* history: Some(id) when the last step was a click that stored a timestamp
  unclicked_since_removal,  \* history: ids whose refresh time was removed, not clicked since
  managed_processes,  \* data_manager's tasks: id -> record
  running,        \* the liveness monitor's tasks seen running at its last poll
  os_running,     \* executables with a live process in the operating system
  process_table,  \* the status column of process_table: id -> status text
  table_now,      \* now_dt of the populate_process_list call that filled the table
  edit_dialog,    \* None, or Some of the task held by the open edit dialog
  global_settings,  \* data_manager.global_settings
  settings_file,  \* the settings as save_global_settings() last wrote them
  notified,       \* the scheduler's last notified occurrence key: id -> cycle start
  sent,           \* history: id -> the key last handed to the notifier, and how often
  event_loop,     \* "running", "aborted" once an exception left a timer's handler,
                  \* "quit" once QApplication.quit() was called
  timers          \* the QTimers the application started, and the variant that owns them

vars == <<now, eval_in, eval_out, web_shortcuts, web_buttons, last_click,
          unclicked_since_removal, managed_processes, running, os_running,
          process_table, table_now, edit_dialog, global_settings, settings_file,
          notified, sent, event_loop, timers>>

task_vars == <<managed_processes, running, os_running, process_table, table_now, edit_dialog>>

web_vars == <<web_shortcuts, web_buttons, last_click, unclicked_since_removal>>

sched_vars == <<global_settings, settings_file, notified, sent, event_loop, timers>>

\* ------------------------------------------------------------ the timers

\* A QTimer after start(interval): its interval in milliseconds, and whether
\* it is active.
QTimer(interval) == [interval |-> interval, active |-> TRUE]

\* hasattr(self, timer) and timer.isActive().
IsActive(timer) == timer # None /\ timer[1].active

\* timer.stop() under that guard.
Stopped(timer) == IF timer = None THEN None ELSE Some([timer[1] EXCEPT !.active = FALSE])

\* The timers of the main window: the monitor and the scheduler every
\* second, the refresh of the shortcut buttons every minute.
MainWindowTimers ==
  [variant |-> "main_window",
   monitor_timer |-> Some(QTimer(1000)),
   scheduler_timer |-> Some(QTimer(1000)),
   web_button_refresh_timer |-> Some(QTimer(1000 * 60))]

\* The timers of the second copy of the main window in the same file.
SecondCopyTimers ==
  [variant |-> "main_window_second_copy",
   monitor_timer |-> Some(QTimer(10000)),
   scheduler_timer |-> Some(QTimer(10000)),
   web_button_refresh_timer |-> Some(QTimer(60 * 1000))]

\* The timers of the main window that precedes the widget application in
\* its file: no timer for the shortcut buttons.
PrecedingWindowTimers ==
  [variant |-> "main_window_before_widget",
   monitor_timer |-> Some(QTimer(10 * 1000)),
   scheduler_timer |-> Some(QTimer(10 * 1000)),
   web_button_refresh_timer |-> None]

\* setup_timers with the scheduler started at another interval than the monitor.
SetupTimersUnequal ==
  [variant |-> "widget_app",
   monitor_timer |-> Some(QTimer(1000)),
   scheduler_timer |-> Some(QTimer(10000)),
   web_button_refresh_timer |-> None]

\* HomeworkHelperWidgetApp.setup_timers().
setup_timers ==
  [variant |-> "widget_app",
   monitor_timer |-> Some(QTimer(1000)),
   scheduler_timer |-> Some(QTimer(1000)),
   web_button_refresh_timer |-> None]

\* The variants whose timers belong to a MainWindow.
WindowVariants == {"main_window", "main_window_second_copy", "main_window_before_widget"}

eval_vars == <<eval_in, eval_out>>

\* ------------------------------------------------------------ the settings

\* GlobalSettings: the sleep window in which no notification is shown, as two
\* "HH:MM" strings or None, and the run-on-startup flag.
GlobalSettings(sleep_start, sleep_end, run_on_startup) ==
  [sleep_start_time_str |-> sleep_start, sleep_end_time_str |-> sleep_end,
   run_on_startup |-> run_on_startup]

\* The settings of a first start: no sleep window.
DefaultSettings == GlobalSettings(None, None, FALSE)

\* What GlobalSettingsDialog.get_updated_settings() can return: no window, a
\* window from midnight to 06:00, and one from 22:00 over midnight to 06:00
\* together with the run-on-startup flag.
DialogSettings ==
  LET midnight == <<"0", "0", ":", "0", "0">>
      six == <<"0", "6", ":", "0", "0">>
      ten_pm == <<"2", "2", ":", "0", "0">>
  IN  { DefaultSettings,
        GlobalSettings(Some(midnight), Some(six), FALSE),
        GlobalSettings(Some(ten_pm), Some(six), TRUE) }

\* ----------------------------------------------------------- input samples

\* Times of day (seconds after midnight) around the refresh times in use.
SampleTimesOfDay ==
  {0, 1, (6 * 3600) - 1, 6 * 3600, (6 * 3600) + 1, (23 * 3600) + (59 * 60), DayLen - 1}

Instants(days) == {Combine(d, t) : d \in days, t \in SampleTimesOfDay}

\* refresh_time_str values that parse to a time of day, with that time.
ValidRefreshTimes ==
  { [str |-> <<"0", "0", ":", "0", "0">>, tod |-> (0 * 3600) + (0 * 60)],
    [str |-> <<"0", "6", ":", "0", "0">>, tod |-> (6 * 3600) + (0 * 60)],
    [str |-> <<"6", ":", "0">>, tod |-> (6 * 3600) + (0 * 60)],
    [str |-> <<"2", "3", ":", "5", "9">>, tod |-> (23 * 3600) + (59 * 60)] }

\* refresh_time_str values that are not a time of day.
MalformedRefreshTimes ==
  { <<"x">>,
    <<"0", "6">>,
    <<"0", "6", ":", "0", "0", ":", "0", "0">>,
    <<"2", "4", ":", "0", "0">>,
    <<"0", "0", ":", "6", "0">>,
    <<"-", "1", ":", "0", "0">>,
    <<":">>,
    <<"6", ":", "x", "0">>,
    <<"2", "1", "4", "7", "4", "8", "3", "6", "4", "7", ":", "0", "0">>,
    <<"2", "1", "4", "7", "4", "8", "3", "6", "4", "8", ":", "0", "0">>,
    <<"0", ":", "2", "1", "4", "7", "4", "8", "3", "6", "4", "8">> }

RefreshTimeStrings == {v.str : v \in ValidRefreshTimes} \cup MalformedRefreshTimes

\* ------------------------------------------ one call of the state function

InitEval ==
  /\ now \in Instants(1..MaxDay)
  /\ eval_in \in [refresh_time_str : {None, Some(<<>>)} \cup {Some(s) : s \in RefreshTimeStrings},
                  last_reset_timestamp : {None} \cup {Some(Timestamp(dt)) : dt \in Instants(0..MaxDay)}]
  /\ eval_out = None
  /\ web_shortcuts = EmptyMap
  /\ web_buttons = EmptyMap
  /\ last_click = None
  /\ unclicked_since_removal = {}
  /\ managed_processes = EmptyMap
  /\ running = {}
  /\ os_running = {}
  /\ process_table = EmptyMap
  /\ table_now = now
  /\ edit_dialog = None
  /\ global_settings = DefaultSettings
  /\ settings_file = global_settings
  /\ notified = EmptyMap
  /\ sent = EmptyMap
  /\ event_loop = "running"
  /\ timers = MainWindowTimers

\* state = self._determine_web_button_state(shortcut, current_dt)
Evaluate ==
  /\ eval_out = None
  /\ eval_out' = Some(_determine_web_button_state(eval_in, now))
  /\ UNCHANGED <<now, eval_in, web_vars, task_vars, sched_vars>>

NextEval == Evaluate

SpecEval == InitEval /\ [][NextEval]_vars

\* ------------------------------------------------------ the shortcut store

\* Ids the store hands out to shortcuts.
ShortcutIds == {"s1", "s2"}

\* What WebShortcutDialog.get_data() can return under "refresh_time_str".
DialogRefreshTimes ==
  {None, Some(<<>>), Some(<<"0", "0", ":", "0", "0">>), Some(<<"0", "6", ":", "0", "0">>)}

\* WebShortcut(id=..., refresh_time_str=..., last_reset_timestamp=...); the
\* name and the url take no part in the button state and are left out.
WebShortcut(refresh_time_str, last_reset_timestamp) ==
  [refresh_time_str |-> refresh_time_str, last_reset_timestamp |-> last_reset_timestamp]

\* `not shortcut.refresh_time_str`: None and the empty string.
NoRefreshTime(refresh_time_str) ==
  refresh_time_str = None \/ refresh_time_str[1] = <<>>

\* data_manager.update_web_shortcut(updated): replaces the record of that id
\* and returns True, or changes nothing and returns False.
update_web_shortcut(shortcuts, id, updated, saved) ==
  IF saved /\ id \in DOMAIN shortcuts
  THEN [k \in DOMAIN shortcuts |-> IF k = id THEN updated ELSE shortcuts[k]]
  ELSE shortcuts

\* data_manager.add_web_shortcut(new_shortcut) under a fresh id.
add_web_shortcut(shortcuts, id, new_shortcut, saved) ==
  IF saved
  THEN [k \in DOMAIN shortcuts \cup {id} |-> IF k = id THEN new_shortcut ELSE shortcuts[k]]
  ELSE shortcuts

\* data_manager.remove_web_shortcut(shortcut_id).
remove_web_shortcut(shortcuts, id, saved) ==
  IF saved THEN [k \in DOMAIN shortcuts \ {id} |-> shortcuts[k]] ELSE shortcuts

\* ------------------------------------------------------------ the buttons

\* One button per stored shortcut, styled by its state at current_dt.
_load_and_display_web_buttons(shortcuts, current_dt) ==
  [id \in DOMAIN shortcuts |-> _determine_web_button_state(shortcuts[id], current_dt)]

\* Every button whose shortcut is still stored is styled again.
_refresh_web_button_states(buttons, shortcuts, current_dt) ==
  [id \in DOMAIN buttons |->
     IF id \in DOMAIN shortcuts
     THEN _determine_web_button_state(shortcuts[id], current_dt)
     ELSE buttons[id]]

\* Variant: the click stamped with datetime.datetime.utcnow().timestamp().
ClickedShortcutUtc(shortcut, current_dt) ==
  [shortcut EXCEPT !.last_reset_timestamp = Some(Timestamp(current_dt) - UtcOffset)]

\* The click storing the timestamp of the same time one day earlier.
ClickedShortcutDayBefore(shortcut, current_dt) ==
  [shortcut EXCEPT !.last_reset_timestamp = Some(Timestamp(current_dt) - DayLen)]

\* shortcut.last_reset_timestamp = datetime.datetime.now().timestamp()
ClickedShortcut(shortcut, current_dt) ==
  [shortcut EXCEPT !.last_reset_timestamp = Some(Timestamp(current_dt))]

\* What data_manager.get_web_shortcut_by_id(id) hands out: the record the
\* store holds (TRUE), so that an assignment to it is seen in the store, or a
\* copy of it (FALSE).
GetHandsOutRecord == BOOLEAN

\* The store after lines 453-454: the timestamp is assigned to the shortcut
\* that was handed out, then update_web_shortcut(shortcut) is called.
StoredAfterClick(shortcuts, id, clicked, saved, shared) ==
  IF shared THEN [k \in DOMAIN shortcuts |-> IF k = id THEN clicked ELSE shortcuts[k]]
  ELSE update_web_shortcut(shortcuts, id, clicked, saved)

\* _handle_web_button_clicked without the test of refresh_time_str: every
\* click on a stored shortcut stamps it.
ClickStampingAlways(id, saved) ==
  /\ id \in DOMAIN web_buttons
  /\ IF id \in DOMAIN web_shortcuts
     THEN \E shared \in GetHandsOutRecord :
          LET clicked == ClickedShortcut(web_shortcuts[id], now)
              stored == StoredAfterClick(web_shortcuts, id, clicked, saved, shared)
          IN  /\ web_shortcuts' = stored
              /\ web_buttons' = IF saved
                                THEN _refresh_web_button_states(web_buttons, stored, now)
                                ELSE web_buttons
              /\ last_click' = IF saved THEN Some(id) ELSE None
              /\ unclicked_since_removal' =
                   IF stored[id] = clicked THEN unclicked_since_removal \ {id}
                   ELSE unclicked_since_removal
     ELSE /\ last_click' = None
          /\ UNCHANGED <<web_shortcuts, web_buttons, unclicked_since_removal>>
  /\ UNCHANGED <<sched_vars, now, eval_vars, task_vars>>

\* A click on the button of shortcut id; saved is update_web_shortcut's answer.
_handle_web_button_clicked(id, saved) ==
  /\ id \in DOMAIN web_buttons
  /\ IF id \in DOMAIN web_shortcuts /\ ~NoRefreshTime(web_shortcuts[id].refresh_time_str)
     THEN \E shared \in GetHandsOutRecord :
          LET clicked == ClickedShortcut(web_shortcuts[id], now)
              stored == StoredAfterClick(web_shortcuts, id, clicked, saved, shared)
          IN  /\ web_shortcuts' = stored
              /\ web_buttons' = IF saved
                                THEN _refresh_web_button_states(web_buttons, stored, now)
                                ELSE web_buttons
              /\ last_click' = IF saved THEN Some(id) ELSE None
              /\ unclicked_since_removal' =
                   IF stored[id] = clicked THEN unclicked_since_removal \ {id}
                   ELSE unclicked_since_removal
     ELSE /\ last_click' = None
          /\ UNCHANGED <<web_shortcuts, web_buttons, unclicked_since_removal>>
  /\ UNCHANGED <<sched_vars, now, eval_vars, task_vars>>

\* The "+" button: the dialog is accepted with refresh_time_str, the store
\* takes the new shortcut under id (saved) or refuses it.
_open_add_web_shortcut_dialog(id, refresh_time_str, saved) ==
  /\ id \notin DOMAIN web_shortcuts
  /\ LET new_shortcut == WebShortcut(refresh_time_str, None)
         stored == add_web_shortcut(web_shortcuts, id, new_shortcut, saved)
     IN  /\ web_shortcuts' = stored
         /\ web_buttons' = IF saved THEN _load_and_display_web_buttons(stored, now)
                                    ELSE web_buttons
  /\ last_click' = None
  /\ UNCHANGED <<sched_vars, now, eval_vars, task_vars, unclicked_since_removal>>

\* Variant: the timestamp survives the removal of the refresh time.
EditedShortcutKeepingStamp(shortcut_to_edit, refresh_time_str) ==
  WebShortcut(refresh_time_str, shortcut_to_edit.last_reset_timestamp)

\* Variant: every edit drops the timestamp.
EditedShortcutDroppingStamp(shortcut_to_edit, refresh_time_str) ==
  WebShortcut(refresh_time_str, None)

\* updated_shortcut of the edit: the id and the timestamp are kept, and the
\* timestamp is dropped together with the refresh time.
EditedShortcut(shortcut_to_edit, refresh_time_str) ==
  LET updated_shortcut == WebShortcut(refresh_time_str, shortcut_to_edit.last_reset_timestamp)
  IN  IF NoRefreshTime(updated_shortcut.refresh_time_str)
      THEN [updated_shortcut EXCEPT !.last_reset_timestamp = None]
      ELSE updated_shortcut

\* "Edit" in a button's menu, the dialog accepted with refresh_time_str.
_edit_web_shortcut(id, refresh_time_str, saved) ==
  /\ id \in DOMAIN web_buttons
  /\ id \in DOMAIN web_shortcuts
  /\ LET updated_shortcut == EditedShortcut(web_shortcuts[id], refresh_time_str)
         stored == update_web_shortcut(web_shortcuts, id, updated_shortcut, saved)
     IN  /\ web_shortcuts' = stored
         /\ web_buttons' = IF saved THEN _load_and_display_web_buttons(stored, now)
                                    ELSE web_buttons
         /\ unclicked_since_removal' =
              IF saved /\ NoRefreshTime(refresh_time_str)
              THEN unclicked_since_removal \cup {id}
              ELSE unclicked_since_removal
  /\ last_click' = None
  /\ UNCHANGED <<sched_vars, now, eval_vars, task_vars>>

\* "Delete" in a button's menu, confirmed with Yes.
_delete_web_shortcut(id, saved) ==
  /\ id \in DOMAIN web_buttons
  /\ id \in DOMAIN web_shortcuts
  /\ LET stored == remove_web_shortcut(web_shortcuts, id, saved)
     IN  /\ web_shortcuts' = stored
         /\ web_buttons' = IF saved THEN _load_and_display_web_buttons(stored, now)
                                    ELSE web_buttons
         /\ unclicked_since_removal' =
              IF saved THEN unclicked_since_removal \ {id} ELSE unclicked_since_removal
  /\ last_click' = None
  /\ UNCHANGED <<sched_vars, now, eval_vars, task_vars>>

\* A dialog that is cancelled, or a delete answered No: nothing is touched.
DialogCancelled ==
  /\ last_click' = None
  /\ UNCHANGED <<sched_vars, now, eval_vars, task_vars, web_shortcuts, web_buttons, unclicked_since_removal>>

\* web_button_refresh_timer fires.
WebButtonRefreshTimeout ==
  /\ event_loop = "running"
  /\ IsActive(timers.web_button_refresh_timer)
  /\ web_buttons' = _refresh_web_button_states(web_buttons, web_shortcuts, now)
  /\ last_click' = None
  /\ UNCHANGED <<sched_vars, now, eval_vars, task_vars, web_shortcuts, unclicked_since_removal>>

\* The instants the wall clock is read at while the window runs: midnight
\* and around 06:00, the refresh, reset and mandatory times in use.
ClockTimesOfDay == {0, (6 * 3600) - 1, 6 * 3600, (6 * 3600) + 1}

\* Time passes between two events.
AdvanceClock ==
  /\ \E d \in 1..MaxDay, tod \in ClockTimesOfDay :
       /\ Combine(d, tod) > now
       /\ now' = Combine(d, tod)
  /\ last_click' = None
  /\ UNCHANGED <<sched_vars, eval_vars, task_vars, web_shortcuts, web_buttons, unclicked_since_removal>>

\* Shortcut records the program itself can have written before this run:
\* never clicked, or clicked on the day before while a refresh time was set.
StoredShortcuts ==
  {WebShortcut(r, None) : r \in DialogRefreshTimes}
    \cup {WebShortcut(r, Some(Timestamp(dt))) :
            r \in {q \in DialogRefreshTimes : ~NoRefreshTime(q)},
            dt \in {Combine(0, (6 * 3600) - 1), Combine(0, 6 * 3600)}}

InitWeb ==
  /\ now = Combine(1, 0)
  /\ eval_in = WebShortcut(None, None)
  /\ eval_out = None
  /\ \E ids \in SUBSET ShortcutIds : web_shortcuts \in [ids -> StoredShortcuts]
  /\ web_buttons = _load_and_display_web_buttons(web_shortcuts, now)
  /\ last_click = None
  /\ unclicked_since_removal = {}
  /\ managed_processes = EmptyMap
  /\ running = {}
  /\ os_running = {}
  /\ process_table = EmptyMap
  /\ table_now = now
  /\ edit_dialog = None
  /\ global_settings = DefaultSettings
  /\ settings_file = global_settings
  /\ notified = EmptyMap
  /\ sent = EmptyMap
  /\ event_loop = "running"
  /\ timers = MainWindowTimers

NextWeb ==
  \/ \E id \in ShortcutIds, saved \in BOOLEAN : _handle_web_button_clicked(id, saved)
  \/ \E id \in ShortcutIds, r \in DialogRefreshTimes, saved \in BOOLEAN :
       _open_add_web_shortcut_dialog(id, r, saved)
  \/ \E id \in ShortcutIds, r \in DialogRefreshTimes, saved \in BOOLEAN :
       _edit_web_shortcut(id, r, saved)
  \/ \E id \in ShortcutIds, saved \in BOOLEAN : _delete_web_shortcut(id, saved)
  \/ DialogCancelled
  \/ WebButtonRefreshTimeout
  \/ AdvanceClock

SpecWeb == InitWeb /\ [][NextWeb]_vars

\* The window with one stored shortcut that is clicked and edited while the
\* clock advances.
InitEdit ==
  /\ now = Combine(1, 0)
  /\ eval_in = WebShortcut(None, None)
  /\ eval_out = None
  /\ web_shortcuts \in [{"s1"} -> StoredShortcuts]
  /\ web_buttons = _load_and_display_web_buttons(web_shortcuts, now)
  /\ last_click = None
  /\ unclicked_since_removal = {}
  /\ managed_processes = EmptyMap
  /\ running = {}
  /\ os_running = {}
  /\ process_table = EmptyMap
  /\ table_now = now
  /\ edit_dialog = None
  /\ global_settings = DefaultSettings
  /\ settings_file = global_settings
  /\ notified = EmptyMap
  /\ sent = EmptyMap
  /\ event_loop = "running"
  /\ timers = MainWindowTimers

NextEdit ==
  \/ \E saved \in BOOLEAN : _handle_web_button_clicked("s1", saved)
  \/ \E r \in DialogRefreshTimes, saved \in BOOLEAN : _edit_web_shortcut("s1", r, saved)
  \/ DialogCancelled
  \/ WebButtonRefreshTimeout
  \/ AdvanceClock

SpecEdit == InitEdit /\ [][NextEdit]_vars

\* -------------------------------------------------------------- the tasks

\* Ids the store hands out to tasks.
ProcessIds == {"p1"}

\* The executable a task can monitor; the empty string is a manual-only task.
GamePath == <<"g">>

\* What ProcessDialog.get_data() can return: the cycle model of the task.
\* At most one of server_reset_time_str and user_cycle_hours is set.
DialogProcessData ==
  LET six == <<"0", "6", ":", "0", "0">>
      midnight == <<"0", "0", ":", "0", "0">>
      data(path, reset, hours, times, enabled) ==
        [monitoring_path |-> path, server_reset_time_str |-> reset,
         user_cycle_hours |-> hours, mandatory_times_str |-> times,
         is_mandatory_time_enabled |-> enabled]
  IN  { data(GamePath, Some(six), None, {}, FALSE),
        data(GamePath, Some(midnight), None, {six}, TRUE),
        data(GamePath, None, Some(6), {}, FALSE),
        data(GamePath, None, Some(24), {six}, TRUE),
        data(GamePath, None, None, {}, FALSE),
        data(<<>>, Some(six), None, {six}, FALSE) }

\* ManagedProcess(id=..., ..., last_played_timestamp=...); the name and the
\* launch path take no part in the status and are left out.
ManagedProcess(data, last_played_timestamp) ==
  [monitoring_path |-> data.monitoring_path,
   server_reset_time_str |-> data.server_reset_time_str,
   user_cycle_hours |-> data.user_cycle_hours,
   mandatory_times_str |-> data.mandatory_times_str,
   is_mandatory_time_enabled |-> data.is_mandatory_time_enabled,
   last_played_timestamp |-> last_played_timestamp]

\* A time-of-day string as the engine reads it: Some(seconds after midnight)
\* for "HH:MM" with HH in 00..23 and MM in 00..59, None for any other string.
TimeOfDay(str) ==
  IF /\ Len(str) = 5
     /\ str[3] = ":"
     /\ \A i \in {1, 2, 4, 5} : IsDigit(str[i])
  THEN LET hour == (DigitVal(str[1]) * 10) + DigitVal(str[2])
           minute == (DigitVal(str[4]) * 10) + DigitVal(str[5])
       IN  IF hour < 24 /\ minute < 60 THEN Some((hour * 3600) + (minute * 60)) ELSE None
  ELSE None

\* The start of the cycle the task is in at now_dt, or None when the task has
\* no cycle or was never completed in rolling mode.
\*   daily reset: the latest occurrence of server_reset_time at or before now;
\*   rolling: last_played + user_cycle_hours once that instant has passed,
\*            the completion that opened the running cycle before.
CurrentCycleStart(process, now_dt) ==
  LET reset == IF process.server_reset_time_str = None THEN None
               ELSE TimeOfDay(process.server_reset_time_str[1])
  IN
  IF reset # None
  THEN LET today_reset == Combine(DateOf(now_dt), reset[1])
       IN  Some(IF now_dt >= today_reset THEN today_reset ELSE today_reset - DayLen)
  ELSE IF process.user_cycle_hours # None /\ process.last_played_timestamp # None
  THEN LET last_played == FromTimestamp(process.last_played_timestamp[1])
           boundary == last_played + (process.user_cycle_hours[1] * 3600)
       IN  Some(IF boundary <= now_dt THEN boundary ELSE last_played)
  ELSE None

\* The mandatory instants of the cycle that have passed: every occurrence of a
\* mandatory time of day from the cycle start up to now.
PassedMandatoryInstants(process, cycle_start, now_dt) ==
  LET times == {TimeOfDay(m) : m \in process.mandatory_times_str} \ {None}
  IN  {t \in {Combine(d, tod[1]) : d \in DateOf(cycle_start)..DateOf(now_dt), tod \in times} :
         cycle_start <= t /\ t <= now_dt}

\* Scheduler.determine_process_visual_status(process, now_dt, gs), with the
\* set of tasks the liveness monitor reports running.
determine_process_visual_status(id, process, now_dt, monitor_running) ==
  IF id \in monitor_running THEN "RUNNING"
  ELSE LET cycle_start == CurrentCycleStart(process, now_dt)
       IN  IF cycle_start = None \/ process.last_played_timestamp = None THEN "INCOMPLETE"
           ELSE LET last_played == FromTimestamp(process.last_played_timestamp[1])
                IN  IF /\ last_played >= cycle_start[1]
                       /\ process.is_mandatory_time_enabled =>
                            \A t \in PassedMandatoryInstants(process, cycle_start[1], now_dt) :
                              last_played >= t
                    THEN "COMPLETED" ELSE "INCOMPLETE"

\* ProcessMonitor.check_and_update_statuses(): every task with a monitoring
\* path is polled; a task that stopped gets last_played_timestamp = now.
MonitoredIds(processes) ==
  {id \in DOMAIN processes : processes[id].monitoring_path # <<>>}

PolledRunning(processes, live) ==
  {id \in MonitoredIds(processes) : processes[id].monitoring_path \in live}

StatusesAfterCheck(processes, was_running, live, current_dt) ==
  [id \in DOMAIN processes |->
     IF id \in MonitoredIds(processes) /\ id \in was_running /\ id \notin PolledRunning(processes, live)
     THEN [processes[id] EXCEPT !.last_played_timestamp = Some(Timestamp(current_dt))]
     ELSE processes[id]]

\* The running set the monitor keeps for the next tick: the tasks polled
\* running, and the stored tasks it does not poll as it last saw them.
RunningAfterCheck(processes, was_running, live) ==
  ((was_running \cap DOMAIN processes) \ MonitoredIds(processes))
    \cup PolledRunning(processes, live)

\* data_manager.update_process(updated) / remove_process(id): True and done,
\* or False and nothing changed.  add_process(new) always adds.
update_process(processes, id, updated, saved) ==
  IF saved /\ id \in DOMAIN processes
  THEN [k \in DOMAIN processes |-> IF k = id THEN updated ELSE processes[k]]
  ELSE processes

remove_process(processes, id, saved) ==
  IF saved THEN [k \in DOMAIN processes \ {id} |-> processes[k]] ELSE processes

add_process(processes, id, new_p) ==
  [k \in DOMAIN processes \cup {id} |-> IF k = id THEN new_p ELSE processes[k]]

\* ------------------------------------------------------- the notifications

\* The sleep window taken to include its end time of day.
InSleepWindowToEnd(gs, now_dt) ==
  IF gs.sleep_start_time_str = None \/ gs.sleep_end_time_str = None THEN FALSE
  ELSE LET start == TimeOfDay(gs.sleep_start_time_str[1])
           end == TimeOfDay(gs.sleep_end_time_str[1])
           tod == now_dt % DayLen
       IN  IF start = None \/ end = None THEN FALSE
           ELSE IF start[1] <= end[1] THEN start[1] <= tod /\ tod <= end[1]
           ELSE tod >= start[1] \/ tod <= end[1]

\* Whether now_dt lies in the sleep window of the settings: from the start
\* time of day up to, not including, the end; a window whose start is after
\* its end runs over midnight.
InSleepWindow(gs, now_dt) ==
  IF gs.sleep_start_time_str = None \/ gs.sleep_end_time_str = None THEN FALSE
  ELSE LET start == TimeOfDay(gs.sleep_start_time_str[1])
           end == TimeOfDay(gs.sleep_end_time_str[1])
           tod == now_dt % DayLen
       IN  IF start = None \/ end = None THEN FALSE
           ELSE IF start[1] <= end[1] THEN start[1] <= tod /\ tod < end[1]
           ELSE tod >= start[1] \/ tod < end[1]

\* The occurrences awaiting a notification at now_dt: the stored tasks that
\* are INCOMPLETE in a cycle whose start is not the key last notified.
PendingOccurrences(processes, now_dt, monitor_running, last_notified) ==
  {id \in DOMAIN processes :
     /\ determine_process_visual_status(id, processes[id], now_dt, monitor_running) = "INCOMPLETE"
     /\ CurrentCycleStart(processes[id], now_dt) # None
     /\ id \in DOMAIN last_notified
          => last_notified[id] # CurrentCycleStart(processes[id], now_dt)[1]}

\* The tasks Scheduler.run_all_checks() notifies about at now_dt: the pending
\* occurrences, and none of them inside the sleep window.
NotifiedNow(processes, now_dt, monitor_running, gs, last_notified) ==
  IF InSleepWindow(gs, now_dt) THEN {}
  ELSE PendingOccurrences(processes, now_dt, monitor_running, last_notified)

\* The keys the scheduler holds after run_all_checks(): the cycle start of
\* every task just notified, the keys of the other stored tasks as they were.
KeysAfterChecks(processes, now_dt, monitor_running, gs, last_notified) ==
  LET emitted == NotifiedNow(processes, now_dt, monitor_running, gs, last_notified)
  IN  [id \in (DOMAIN last_notified \cap DOMAIN processes) \cup emitted |->
         IF id \in emitted THEN CurrentCycleStart(processes[id], now_dt)[1]
         ELSE last_notified[id]]

\* The notifier's history after run_all_checks(): a task just notified has
\* its key counted once more, or counted once when the key is a new one.
SentAfterChecks(processes, now_dt, monitor_running, gs, last_notified, history) ==
  LET emitted == NotifiedNow(processes, now_dt, monitor_running, gs, last_notified)
  IN  [id \in (DOMAIN history \cap DOMAIN processes) \cup emitted |->
         IF id \in emitted
         THEN LET key == CurrentCycleStart(processes[id], now_dt)[1]
              IN  IF id \in DOMAIN history /\ history[id].key = key
                  THEN [key |-> key, times |-> IF history[id].times < 2 THEN history[id].times + 1 ELSE 2]
                  ELSE [key |-> key, times |-> 1]
         ELSE history[id]]

\* ------------------------------------------------------------- the table

\* populate_process_list reading the clock with utcnow() instead of now().
PopulateWithUtcNow(processes, now_dt, monitor_running) ==
  [id \in DOMAIN processes |->
     determine_process_visual_status(id, processes[id], now_dt - UtcOffset, monitor_running)]

\* populate_process_list reading only the date: datetime.date.today() at 00:00.
PopulateWithDateOnly(processes, now_dt, monitor_running) ==
  [id \in DOMAIN processes |->
     determine_process_visual_status(id, processes[id], Combine(DateOf(now_dt), 0),
                                     monitor_running)]

\* The status column populate_process_list writes, one row per stored task.
populate_process_list(processes, now_dt, monitor_running) ==
  [id \in DOMAIN processes |->
     determine_process_visual_status(id, processes[id], now_dt, monitor_running)]

\* run_process_monitor_check without the refresh request of line 208.
MonitorCheckWithoutRefresh ==
  /\ managed_processes' = StatusesAfterCheck(managed_processes, running, os_running, now)
  /\ running' = RunningAfterCheck(managed_processes, running, os_running)
  /\ last_click' = None
  /\ UNCHANGED <<sched_vars, eval_vars, now, os_running, process_table, table_now, edit_dialog,
                 web_shortcuts, web_buttons, unclicked_since_removal>>

\* run_process_monitor_check requesting the refresh whatever the check returned.
MonitorCheckAlwaysRefreshing ==
  /\ managed_processes' = StatusesAfterCheck(managed_processes, running, os_running, now)
  /\ running' = RunningAfterCheck(managed_processes, running, os_running)
  /\ process_table' = populate_process_list(managed_processes', now, running')
  /\ table_now' = now
  /\ last_click' = None
  /\ UNCHANGED <<sched_vars, eval_vars, now, os_running, edit_dialog, web_shortcuts,
                 web_buttons, unclicked_since_removal>>

\* monitor_timer fires.
run_process_monitor_check ==
  LET checked == StatusesAfterCheck(managed_processes, running, os_running, now)
      polled == RunningAfterCheck(managed_processes, running, os_running)
      changed == polled # (running \cap DOMAIN managed_processes)
  IN  /\ event_loop = "running"
      /\ timers.variant \in WindowVariants
      /\ IsActive(timers.monitor_timer)
      /\ managed_processes' = checked
      /\ running' = polled
      /\ process_table' = IF changed THEN populate_process_list(checked, now, polled)
                                     ELSE process_table
      /\ table_now' = IF changed THEN now ELSE table_now
      /\ last_click' = None
      /\ UNCHANGED <<sched_vars, eval_vars, now, os_running, edit_dialog, web_shortcuts, web_buttons,
                     unclicked_since_removal>>

\* run_scheduler_check without the call of scheduler.run_all_checks().
SchedulerCheckWithoutChecks ==
  /\ process_table' = populate_process_list(managed_processes, now, running)
  /\ table_now' = now
  /\ last_click' = None
  /\ UNCHANGED <<sched_vars, eval_vars, now, managed_processes, running, os_running,
                 edit_dialog, web_shortcuts, web_buttons, unclicked_since_removal>>

\* run_scheduler_check with a refresh of the shortcut buttons at its end.
SchedulerCheckRefreshingButtons ==
  /\ event_loop = "running"
  /\ IsActive(timers.scheduler_timer)
  /\ notified' = KeysAfterChecks(managed_processes, now, running, global_settings, notified)
  /\ sent' = SentAfterChecks(managed_processes, now, running, global_settings, notified, sent)
  /\ process_table' = populate_process_list(managed_processes, now, running)
  /\ table_now' = now
  /\ web_buttons' = _refresh_web_button_states(web_buttons, web_shortcuts, now)
  /\ last_click' = None
  /\ UNCHANGED <<eval_vars, now, managed_processes, running, os_running, edit_dialog,
                 web_shortcuts, unclicked_since_removal, global_settings,
                 settings_file, event_loop, timers>>

\* scheduler_timer fires: scheduler.run_all_checks() notifies about the
\* pending occurrences, leaving the tasks' cycle fields and the monitor's
\* running set as they are, and then the table is drawn again.
run_scheduler_check ==
  /\ IsActive(timers.scheduler_timer)
  /\ timers.variant \in WindowVariants
  /\ event_loop = "running"
  /\ notified' = KeysAfterChecks(managed_processes, now, running, global_settings, notified)
  /\ sent' = SentAfterChecks(managed_processes, now, running, global_settings, notified, sent)
  /\ process_table' = populate_process_list(managed_processes, now, running)
  /\ table_now' = now
  /\ last_click' = None
  /\ UNCHANGED <<eval_vars, now, managed_processes, running, os_running, edit_dialog,
                 web_shortcuts, web_buttons, unclicked_since_removal, global_settings,
                 settings_file, event_loop, timers>>

\* The order of data_manager.managed_processes, the order of the rows.
ProcessOrder == <<"p1", "p2">>

RowOf(id) == CHOOSE r \in 1..Len(ProcessOrder) : ProcessOrder[r] = id

\* The status column after a populate_process_list in which line 257 raises
\* for the task bad: the rows above it are drawn, its own row and the rows
\* below keep the item they had, or have none.
PopulateRaising(table, processes, now_dt, monitor_running, bad) ==
  [id \in {k \in DOMAIN processes : RowOf(k) < RowOf(bad) \/ k \in DOMAIN table} |->
     IF RowOf(id) < RowOf(bad)
     THEN determine_process_visual_status(id, processes[id], now_dt, monitor_running)
     ELSE table[id]]

\* What an exception leaving a slot does to the program: it is reported and
\* the event loop goes on, or it ends the program.
AfterUncaught == {"running", "aborted"}

\* scheduler_timer fires and the evaluation of the task bad raises: the
\* scheduler, failing soft, passes over it in run_all_checks(); the drawing of
\* the table stops at its row and the exception leaves the handler.
run_scheduler_check_raising(bad) ==
  LET rest == [id \in DOMAIN managed_processes \ {bad} |-> managed_processes[id]]
  IN  /\ event_loop = "running"
      /\ IsActive(timers.scheduler_timer)
      /\ bad \in DOMAIN managed_processes
      /\ notified' = KeysAfterChecks(rest, now, running, global_settings,
                                     [id \in DOMAIN notified \ {bad} |-> notified[id]])
                       @@ [id \in DOMAIN notified \cap {bad} |-> notified[id]]
      /\ sent' = SentAfterChecks(rest, now, running, global_settings,
                                 [id \in DOMAIN notified \ {bad} |-> notified[id]],
                                 [id \in DOMAIN sent \ {bad} |-> sent[id]])
                   @@ [id \in DOMAIN sent \cap {bad} |-> sent[id]]
      /\ process_table' = PopulateRaising(process_table, managed_processes, now, running, bad)
      /\ event_loop' \in AfterUncaught
      /\ last_click' = None
      /\ UNCHANGED <<eval_vars, now, managed_processes, running, os_running, table_now,
                     edit_dialog, web_shortcuts, web_buttons, unclicked_since_removal,
                     global_settings, settings_file, timers>>

\* monitor_timer fires, the check reports a change and the evaluation of the
\* task bad raises in the drawing of the table.
run_process_monitor_check_raising(bad) ==
  LET checked == StatusesAfterCheck(managed_processes, running, os_running, now)
      polled == RunningAfterCheck(managed_processes, running, os_running)
  IN  /\ event_loop = "running"
      /\ IsActive(timers.monitor_timer)
      /\ bad \in DOMAIN managed_processes
      /\ polled # (running \cap DOMAIN managed_processes)
      /\ managed_processes' = checked
      /\ running' = polled
      /\ process_table' = PopulateRaising(process_table, checked, now, polled, bad)
      /\ event_loop' \in AfterUncaught
      /\ last_click' = None
      /\ UNCHANGED <<eval_vars, now, os_running, table_now, edit_dialog, web_shortcuts,
                     web_buttons, unclicked_since_removal, global_settings, settings_file,
                     notified, sent, timers>>

\* open_global_settings_dialog without save_global_settings() of line 190.
SettingsDialogWithoutSave(upd_gs) ==
  /\ global_settings' = upd_gs
  /\ process_table' = populate_process_list(managed_processes, now, running)
  /\ table_now' = now
  /\ web_buttons' = _refresh_web_button_states(web_buttons, web_shortcuts, now)
  /\ last_click' = None
  /\ UNCHANGED <<eval_vars, now, managed_processes, running, os_running, edit_dialog,
                 web_shortcuts, unclicked_since_removal, notified, sent, event_loop,
                 settings_file, timers>>

\* The settings dialog is accepted: the settings are replaced and saved, the
\* table is drawn again and the shortcut buttons are styled again.
open_global_settings_dialog(upd_gs) ==
  /\ global_settings' = upd_gs
  /\ settings_file' = upd_gs
  /\ process_table' = populate_process_list(managed_processes, now, running)
  /\ table_now' = now
  /\ web_buttons' = _refresh_web_button_states(web_buttons, web_shortcuts, now)
  /\ last_click' = None
  /\ UNCHANGED <<eval_vars, now, managed_processes, running, os_running, edit_dialog,
                 web_shortcuts, unclicked_since_removal, notified, sent, event_loop,
                 timers>>

\* The settings dialog is closed without accepting.
GlobalSettingsDialogCancelled ==
  /\ last_click' = None
  /\ UNCHANGED <<sched_vars, eval_vars, now, task_vars, web_shortcuts, web_buttons,
                 unclicked_since_removal>>

\* "Edit" in a row's menu: the task is read and the modal dialog opens.
OpenEditDialog(pid) ==
  /\ edit_dialog = None
  /\ pid \in DOMAIN process_table
  /\ pid \in DOMAIN managed_processes
  /\ edit_dialog' = Some([pid |-> pid,
                           last_played_timestamp |-> managed_processes[pid].last_played_timestamp])
  /\ last_click' = None
  /\ UNCHANGED <<sched_vars, eval_vars, now, managed_processes, running, os_running, process_table,
                 table_now, web_shortcuts, web_buttons, unclicked_since_removal>>

\* upd_p of the edit: the dialog's fields with p_edit's last_played_timestamp.
EditedProcess(last_played_timestamp, data) ==
  ManagedProcess(data, last_played_timestamp)

\* p_edit.last_played_timestamp as line 307 can read it after the dialog
\* closed: the value seen when the task was fetched, or the stored value of
\* now when get_process_by_id handed out the stored object itself.
PEditLastPlayed ==
  {edit_dialog[1].last_played_timestamp}
    \cup {managed_processes[id].last_played_timestamp :
            id \in {edit_dialog[1].pid} \cap DOMAIN managed_processes}

\* handle_edit_action_for_row without the table refresh of line 309.
EditWithoutRefresh(data, saved) ==
  /\ edit_dialog # None
  /\ \E last_played_timestamp \in PEditLastPlayed :
       managed_processes' = update_process(managed_processes, edit_dialog[1].pid,
                                           EditedProcess(last_played_timestamp, data), saved)
  /\ edit_dialog' = None
  /\ last_click' = None
  /\ UNCHANGED <<sched_vars, eval_vars, now, running, os_running, process_table, table_now,
                 web_shortcuts, web_buttons, unclicked_since_removal>>

\* The edit dialog is accepted with data; saved is update_process's answer.
handle_edit_action_for_row(data, saved) ==
  /\ edit_dialog # None
  /\ \E last_played_timestamp \in PEditLastPlayed :
       LET pid == edit_dialog[1].pid
           upd_p == EditedProcess(last_played_timestamp, data)
           stored == update_process(managed_processes, pid, upd_p, saved)
       IN  /\ managed_processes' = stored
           /\ process_table' = IF saved THEN populate_process_list(stored, now, running)
                                        ELSE process_table
           /\ table_now' = IF saved THEN now ELSE table_now
  /\ edit_dialog' = None
  /\ last_click' = None
  /\ UNCHANGED <<sched_vars, eval_vars, now, running, os_running, web_shortcuts, web_buttons,
                 unclicked_since_removal>>

\* The edit dialog is cancelled.
EditDialogCancelled ==
  /\ edit_dialog # None
  /\ edit_dialog' = None
  /\ last_click' = None
  /\ UNCHANGED <<sched_vars, eval_vars, now, managed_processes, running, os_running, process_table,
                 table_now, web_shortcuts, web_buttons, unclicked_since_removal>>

\* "Delete" in a row's menu, confirmed with Yes.
handle_delete_action_for_row(pid, saved) ==
  /\ edit_dialog = None
  /\ pid \in DOMAIN process_table
  /\ pid \in DOMAIN managed_processes
  /\ LET stored == remove_process(managed_processes, pid, saved)
     IN  /\ managed_processes' = stored
         /\ process_table' = IF saved THEN populate_process_list(stored, now, running)
                                      ELSE process_table
         /\ table_now' = IF saved THEN now ELSE table_now
  /\ last_click' = None
  /\ UNCHANGED <<sched_vars, eval_vars, now, running, os_running, edit_dialog, web_shortcuts,
                 web_buttons, unclicked_since_removal>>

\* "Add game": the dialog is accepted with data, the task is stored under id.
open_add_process_dialog(id, data) ==
  /\ edit_dialog = None
  /\ id \notin DOMAIN managed_processes
  /\ id \notin running
  /\ LET stored == add_process(managed_processes, id, ManagedProcess(data, None))
     IN  /\ managed_processes' = stored
         /\ process_table' = populate_process_list(stored, now, running)
         /\ table_now' = now
  /\ last_click' = None
  /\ UNCHANGED <<sched_vars, eval_vars, now, running, os_running, edit_dialog, web_shortcuts,
                 web_buttons, unclicked_since_removal>>

\* The launch button of a row: launcher.launch_process(launch_path) starts the
\* task's executable (launched) or fails; the stored task is not touched.
handle_launch_button_in_row(pid, launched) ==
  /\ pid \in DOMAIN process_table
  /\ pid \in DOMAIN managed_processes
  /\ os_running' = IF launched /\ managed_processes[pid].monitoring_path # <<>>
                   THEN os_running \cup {managed_processes[pid].monitoring_path}
                   ELSE os_running
  /\ last_click' = None
  /\ UNCHANGED <<sched_vars, eval_vars, now, managed_processes, running, process_table,
                 table_now, edit_dialog, web_shortcuts, web_buttons, unclicked_since_removal>>

\* A monitored executable starts or exits in the operating system.
ProcessStartsOrExits ==
  /\ \E live \in SUBSET {GamePath} : live # os_running /\ os_running' = live
  /\ last_click' = None
  /\ UNCHANGED <<sched_vars, eval_vars, now, managed_processes, running, process_table, table_now,
                 edit_dialog, web_shortcuts, web_buttons, unclicked_since_removal>>

\* Task records the program itself can have written before this run: never
\* played, or last seen exiting on the day before.
StoredProcesses ==
  {ManagedProcess(d, None) : d \in DialogProcessData}
    \cup {ManagedProcess(d, Some(Timestamp(dt))) :
            d \in {x \in DialogProcessData : x.monitoring_path # <<>>},
            dt \in {Combine(0, (6 * 3600) - 1), Combine(0, 6 * 3600)}}

InitTask ==
  /\ now = Combine(1, 0)
  /\ eval_in = WebShortcut(None, None)
  /\ eval_out = None
  /\ web_shortcuts = EmptyMap
  /\ web_buttons = EmptyMap
  /\ last_click = None
  /\ unclicked_since_removal = {}
  /\ \E ids \in SUBSET ProcessIds : managed_processes \in [ids -> StoredProcesses]
  /\ running = {}
  /\ os_running \in SUBSET {GamePath}
  /\ process_table = populate_process_list(managed_processes, now, running)
  /\ table_now = now
  /\ edit_dialog = None
  /\ global_settings = DefaultSettings
  /\ settings_file = global_settings
  /\ notified = EmptyMap
  /\ sent = EmptyMap
  /\ event_loop = "running"
  /\ timers = MainWindowTimers

NextTask ==
  \/ run_process_monitor_check
  \/ \E pid \in ProcessIds : OpenEditDialog(pid)
  \/ \E data \in DialogProcessData, saved \in BOOLEAN : handle_edit_action_for_row(data, saved)
  \/ EditDialogCancelled
  \/ \E pid \in ProcessIds, saved \in BOOLEAN : handle_delete_action_for_row(pid, saved)
  \/ \E id \in ProcessIds, data \in DialogProcessData : open_add_process_dialog(id, data)
  \/ ProcessStartsOrExits
  \/ AdvanceClock

SpecTask == InitTask /\ [][NextTask]_vars

\* ------------------------------------------- one drawing of the task table

\* Task settings with two mandatory times, 12:00 and 18:00, after a 06:00
\* reset or in a 24 h rolling cycle, and with one at the reset time itself.
DrawnProcessData ==
  LET six == <<"0", "6", ":", "0", "0">>
      noon == <<"1", "2", ":", "0", "0">>
      evening == <<"1", "8", ":", "0", "0">>
      data(reset, hours, times, enabled) ==
        [monitoring_path |-> GamePath, server_reset_time_str |-> reset,
         user_cycle_hours |-> hours, mandatory_times_str |-> times,
         is_mandatory_time_enabled |-> enabled]
  IN  { data(Some(six), None, {noon, evening}, TRUE),
        data(Some(six), None, {noon, evening}, FALSE),
        data(Some(six), None, {six, noon}, TRUE),
        data(None, Some(24), {noon, evening}, TRUE),
        data(None, Some(24), {}, TRUE) }

\* Times of day at which such a task was last played or is drawn.
DrawnTimesOfDay ==
  {(6 * 3600) - 1, 6 * 3600, (12 * 3600) - 1, 12 * 3600, 13 * 3600, 17 * 3600,
   18 * 3600, 19 * 3600}

\* The window opens on one stored task at some instant; the table is empty
\* until populate_process_list has run.
InitDraw ==
  /\ now \in {Combine(d, tod) : d \in 1..MaxDay, tod \in DrawnTimesOfDay}
  /\ eval_in = WebShortcut(None, None)
  /\ eval_out = None
  /\ web_shortcuts = EmptyMap
  /\ web_buttons = EmptyMap
  /\ last_click = None
  /\ unclicked_since_removal = {}
  /\ managed_processes \in
       [ProcessIds ->
          {ManagedProcess(d, None) : d \in DrawnProcessData}
            \cup {ManagedProcess(d, Some(Timestamp(Combine(day, tod)))) :
                    d \in DrawnProcessData, day \in 0..MaxDay, tod \in DrawnTimesOfDay}]
  /\ running \in SUBSET ProcessIds
  /\ os_running = {GamePath : id \in running}
  /\ process_table = EmptyMap
  /\ table_now = now
  /\ edit_dialog = None
  /\ global_settings = DefaultSettings
  /\ settings_file = global_settings
  /\ notified = EmptyMap
  /\ sent = EmptyMap
  /\ event_loop = "running"
  /\ timers = MainWindowTimers

\* self.populate_process_list() of the constructor.
DrawTable ==
  /\ process_table = EmptyMap
  /\ process_table' = populate_process_list(managed_processes, now, running)
  /\ table_now' = now
  /\ UNCHANGED <<sched_vars, eval_vars, now, managed_processes, running, os_running, edit_dialog,
                 web_vars>>

NextDraw == DrawTable

SpecDraw == InitDraw /\ [][NextDraw]_vars

\* ------------------------------------------------- the two timers running

\* The tasks the timers run on: a daily reset at midnight with a mandatory
\* time at 06:00, a daily reset at 06:00 and a 6 h rolling cycle, each never
\* played or last played on the day before.
SchedProcesses ==
  {p \in StoredProcesses :
     /\ p.monitoring_path # <<>>
     /\ p.server_reset_time_str # None \/ p.user_cycle_hours = Some(6)
     /\ p.last_played_timestamp \in {None, Some(Timestamp(Combine(0, (6 * 3600) - 1)))}}

\* The window runs on one stored task under some settings; nothing was
\* notified yet.
InitSched ==
  /\ now = Combine(1, 0)
  /\ eval_in = WebShortcut(None, None)
  /\ eval_out = None
  /\ web_shortcuts = EmptyMap
  /\ web_buttons = EmptyMap
  /\ last_click = None
  /\ unclicked_since_removal = {}
  /\ managed_processes \in [ProcessIds -> SchedProcesses]
  /\ running = {}
  /\ os_running \in SUBSET {GamePath}
  /\ process_table = populate_process_list(managed_processes, now, running)
  /\ table_now = now
  /\ edit_dialog = None
  /\ global_settings \in DialogSettings
  /\ settings_file = global_settings
  /\ notified = EmptyMap
  /\ sent = EmptyMap
  /\ event_loop = "running"
  /\ timers = MainWindowTimers

NextSched ==
  \/ run_process_monitor_check
  \/ run_scheduler_check
  \/ \E upd_gs \in DialogSettings : open_global_settings_dialog(upd_gs)
  \/ GlobalSettingsDialogCancelled
  \/ ProcessStartsOrExits
  \/ AdvanceClock

SpecSched == InitSched /\ [][NextSched]_vars

\* ------------------------------------------ every handler beside the settings

\* The dialogs' answers the handlers are run with beside the settings dialog.
SettingsRunProcessData ==
  {d \in DialogProcessData :
     d.monitoring_path # <<>> /\ d.server_reset_time_str = Some(<<"0", "6", ":", "0", "0">>)}

SettingsRunRefreshTimes == {None, Some(<<"0", "6", ":", "0", "0">>)}

\* The window runs at 06:00 on one task and one shortcut under some settings.
InitSettings ==
  /\ now = Combine(1, 6 * 3600)
  /\ eval_in = WebShortcut(None, None)
  /\ eval_out = None
  /\ web_shortcuts \in [{"s1"} -> {WebShortcut(r, None) : r \in SettingsRunRefreshTimes}]
  /\ web_buttons = _load_and_display_web_buttons(web_shortcuts, now)
  /\ last_click = None
  /\ unclicked_since_removal = {}
  /\ managed_processes \in [ProcessIds -> {ManagedProcess(d, None) : d \in SettingsRunProcessData}]
  /\ running = {}
  /\ os_running = {}
  /\ process_table = populate_process_list(managed_processes, now, running)
  /\ table_now = now
  /\ edit_dialog = None
  /\ global_settings \in DialogSettings
  /\ settings_file = global_settings
  /\ notified = EmptyMap
  /\ sent = EmptyMap
  /\ event_loop = "running"
  /\ timers = MainWindowTimers

NextSettings ==
  \/ \E upd_gs \in DialogSettings : open_global_settings_dialog(upd_gs)
  \/ GlobalSettingsDialogCancelled
  \/ run_process_monitor_check
  \/ run_scheduler_check
  \/ WebButtonRefreshTimeout
  \/ \E saved \in BOOLEAN : _handle_web_button_clicked("s1", saved)
  \/ \E r \in SettingsRunRefreshTimes, saved \in BOOLEAN : _edit_web_shortcut("s1", r, saved)
  \/ \E r \in SettingsRunRefreshTimes, saved \in BOOLEAN :
       _open_add_web_shortcut_dialog("s1", r, saved)
  \/ \E saved \in BOOLEAN : _delete_web_shortcut("s1", saved)
  \/ \E pid \in ProcessIds, launched \in BOOLEAN : handle_launch_button_in_row(pid, launched)
  \/ \E pid \in ProcessIds : OpenEditDialog(pid)
  \/ \E data \in SettingsRunProcessData, saved \in BOOLEAN :
       handle_edit_action_for_row(data, saved)
  \/ EditDialogCancelled
  \/ \E pid \in ProcessIds, saved \in BOOLEAN : handle_delete_action_for_row(pid, saved)
  \/ \E id \in ProcessIds, data \in SettingsRunProcessData : open_add_process_dialog(id, data)
  \/ ProcessStartsOrExits

SpecSettings == InitSettings /\ [][NextSettings]_vars

\* ------------------------------------------- a tick whose evaluation raises

\* Two stored tasks, drawn in the order of ProcessOrder, at one instant of
\* the clock: only the processes starting and exiting change what is shown.
FaultProcesses ==
  {p \in SchedProcesses : p.server_reset_time_str # Some(<<"0", "0", ":", "0", "0">>)}

InitFault ==
  /\ now = Combine(1, 0)
  /\ eval_in = WebShortcut(None, None)
  /\ eval_out = None
  /\ web_shortcuts = EmptyMap
  /\ web_buttons = EmptyMap
  /\ last_click = None
  /\ unclicked_since_removal = {}
  /\ managed_processes \in [{ProcessOrder[r] : r \in 1..Len(ProcessOrder)} -> FaultProcesses]
  /\ running = {}
  /\ os_running \in SUBSET {GamePath}
  /\ process_table = populate_process_list(managed_processes, now, running)
  /\ table_now = now
  /\ edit_dialog = None
  /\ global_settings = DefaultSettings
  /\ settings_file = global_settings
  /\ notified = EmptyMap
  /\ sent = EmptyMap
  /\ event_loop = "running"
  /\ timers = MainWindowTimers

NextFault ==
  \/ run_process_monitor_check
  \/ run_scheduler_check
  \/ \E bad \in DOMAIN managed_processes : run_scheduler_check_raising(bad)
  \/ \E bad \in DOMAIN managed_processes : run_process_monitor_check_raising(bad)
  \/ ProcessStartsOrExits

SpecFault == InitFault /\ [][NextFault]_vars

\* ------------------------------------------- the variants and their quit

\* initiate_quit_sequence without the stop of web_button_refresh_timer.
QuitWithoutStoppingWebTimer ==
  /\ event_loop = "running"
  /\ timers.variant \in WindowVariants
  /\ timers' = [timers EXCEPT !.monitor_timer = Stopped(@),
                              !.scheduler_timer = Stopped(@)]
  /\ event_loop' = "quit"
  /\ last_click' = None
  /\ UNCHANGED <<eval_vars, now, task_vars, web_shortcuts, web_buttons, unclicked_since_removal,
                 global_settings, settings_file, notified, sent>>

\* The quit of a main window: each timer that exists and is active is
\* stopped, then QApplication.quit() ends the event loop.
initiate_quit_sequence ==
  /\ event_loop = "running"
  /\ timers.variant \in WindowVariants
  /\ timers' = [timers EXCEPT !.monitor_timer = Stopped(@),
                              !.scheduler_timer = Stopped(@),
                              !.web_button_refresh_timer = Stopped(@)]
  /\ event_loop' = "quit"
  /\ last_click' = None
  /\ UNCHANGED <<eval_vars, now, task_vars, web_shortcuts, web_buttons, unclicked_since_removal,
                 global_settings, settings_file, notified, sent>>

\* The quit of the widget application: its two timers are stopped, then
\* app.quit().
quit_application ==
  /\ event_loop = "running"
  /\ timers.variant = "widget_app"
  /\ timers' = [timers EXCEPT !.monitor_timer = Stopped(@),
                              !.scheduler_timer = Stopped(@)]
  /\ event_loop' = "quit"
  /\ last_click' = None
  /\ UNCHANGED <<eval_vars, now, task_vars, web_shortcuts, web_buttons, unclicked_since_removal,
                 global_settings, settings_file, notified, sent>>

\* monitor_timer of the widget application fires: the statuses are checked,
\* a change is only printed.
WidgetApp_run_process_monitor_check ==
  /\ event_loop = "running"
  /\ timers.variant = "widget_app"
  /\ IsActive(timers.monitor_timer)
  /\ managed_processes' = StatusesAfterCheck(managed_processes, running, os_running, now)
  /\ running' = RunningAfterCheck(managed_processes, running, os_running)
  /\ last_click' = None
  /\ UNCHANGED <<sched_vars, eval_vars, now, os_running, process_table, table_now, edit_dialog,
                 web_shortcuts, web_buttons, unclicked_since_removal>>

\* scheduler_timer of the widget application fires: the checks run, a change
\* is only printed.
WidgetApp_run_scheduler_check ==
  /\ event_loop = "running"
  /\ timers.variant = "widget_app"
  /\ IsActive(timers.scheduler_timer)
  /\ notified' = KeysAfterChecks(managed_processes, now, running, global_settings, notified)
  /\ sent' = SentAfterChecks(managed_processes, now, running, global_settings, notified, sent)
  /\ last_click' = None
  /\ UNCHANGED <<eval_vars, now, task_vars, web_shortcuts, web_buttons, unclicked_since_removal,
                 global_settings, settings_file, event_loop, timers>>

\* The timers as each variant's construction leaves them.
ConstructedTimers == {MainWindowTimers, SecondCopyTimers, PrecedingWindowTimers, setup_timers}

\* One of the variants runs on one stored task and one shortcut that is
\* refreshed at 06:00 and was never clicked.
InitVariants ==
  /\ now = Combine(1, 0)
  /\ eval_in = WebShortcut(None, None)
  /\ eval_out = None
  /\ web_shortcuts = [id \in {"s1"} |-> WebShortcut(Some(<<"0", "6", ":", "0", "0">>), None)]
  /\ web_buttons = _load_and_display_web_buttons(web_shortcuts, now)
  /\ last_click = None
  /\ unclicked_since_removal = {}
  /\ managed_processes \in [ProcessIds -> SchedProcesses]
  /\ running = {}
  /\ os_running = {}
  /\ process_table = populate_process_list(managed_processes, now, running)
  /\ table_now = now
  /\ edit_dialog = None
  /\ global_settings = DefaultSettings
  /\ settings_file = global_settings
  /\ notified = EmptyMap
  /\ sent = EmptyMap
  /\ event_loop = "running"
  /\ timers \in ConstructedTimers

NextVariants ==
  \/ run_process_monitor_check
  \/ run_scheduler_check
  \/ WebButtonRefreshTimeout
  \/ WidgetApp_run_process_monitor_check
  \/ WidgetApp_run_scheduler_check
  \/ initiate_quit_sequence
  \/ quit_application
  \/ ProcessStartsOrExits
  \/ AdvanceClock

SpecVariants == InitVariants /\ [][NextVariants]_vars

\* ------------------------------------------------ the redraws of the window

\* The main window runs from midnight on one task and one shortcut while the
\* clock advances to 06:00 of a day: both tick timers, the button refresh timer, the handlers
\* of the shortcut's button and the settings dialog.
InitRedraw ==
  /\ now = Combine(1, 0)
  /\ eval_in = WebShortcut(None, None)
  /\ eval_out = None
  /\ web_shortcuts \in [{"s1"} -> {WebShortcut(r, None) : r \in SettingsRunRefreshTimes}]
  /\ web_buttons = _load_and_display_web_buttons(web_shortcuts, now)
  /\ last_click = None
  /\ unclicked_since_removal = {}
  /\ managed_processes \in [ProcessIds -> {ManagedProcess(d, None) : d \in SettingsRunProcessData}]
  /\ running = {}
  /\ os_running = {}
  /\ process_table = populate_process_list(managed_processes, now, running)
  /\ table_now = now
  /\ edit_dialog = None
  /\ global_settings = DefaultSettings
  /\ settings_file = global_settings
  /\ notified = EmptyMap
  /\ sent = EmptyMap
  /\ event_loop = "running"
  /\ timers = MainWindowTimers

NextRedraw ==
  \/ run_process_monitor_check
  \/ run_scheduler_check
  \/ WebButtonRefreshTimeout
  \/ \E saved \in BOOLEAN : _handle_web_button_clicked("s1", saved)
  \/ \E r \in SettingsRunRefreshTimes, saved \in BOOLEAN : _edit_web_shortcut("s1", r, saved)
  \/ \E r \in SettingsRunRefreshTimes, saved \in BOOLEAN :
       _open_add_web_shortcut_dialog("s1", r, saved)
  \/ \E saved \in BOOLEAN : _delete_web_shortcut("s1", saved)
  \/ \E upd_gs \in {DefaultSettings} : open_global_settings_dialog(upd_gs)
  \/ ProcessStartsOrExits
  \/ AdvanceClock /\ now' \in {Combine(d, 6 * 3600) : d \in 1..MaxDay}

SpecRedraw == InitRedraw /\ [][NextRedraw]_vars

\* ======================================================================
\* Properties of the shortcut button state
\* ======================================================================

\* The call under SpecEval was made for a refresh_time_str that is a time of day.
EvalValid == \E v \in ValidRefreshTimes : eval_in.refresh_time_str = Some(v.str)

\* today_reset of that call: now's date combined with the refresh time.
EvalTodayReset ==
  Combine(DateOf(now),
          (CHOOSE v \in ValidRefreshTimes : eval_in.refresh_time_str = Some(v.str)).tod)

\* C1: with a valid refresh_time and now >= today_reset, the state is RED when
\* last_reset_timestamp is absent or strictly before today_reset and GREEN
\* otherwise (equality gives GREEN); it is never DEFAULT.
C1_AfterResetRedOrGreen ==
  (eval_out # None /\ EvalValid /\ now >= EvalTodayReset) =>
    eval_out[1] = IF \/ eval_in.last_reset_timestamp = None
                     \/ eval_in.last_reset_timestamp[1] < Timestamp(EvalTodayReset)
                  THEN "RED" ELSE "GREEN"

\* A call at now = today_reset with a click stored at that very instant: GREEN.
C1_Witness ==
  /\ eval_out = Some("GREEN")
  /\ EvalValid
  /\ now = EvalTodayReset
  /\ eval_in.last_reset_timestamp = Some(Timestamp(EvalTodayReset))

\* C2: with a valid refresh_time and now < today_reset, the state is DEFAULT
\* when last_reset_timestamp is absent, GREEN when it is at or after
\* yesterday_reset = today_reset - 24 h, DEFAULT when it is earlier; never RED.
C2_BeforeResetGreenOrDefault ==
  (eval_out # None /\ EvalValid /\ now < EvalTodayReset) =>
    eval_out[1] = IF /\ eval_in.last_reset_timestamp # None
                     /\ eval_in.last_reset_timestamp[1] >= Timestamp(EvalTodayReset - (24 * 3600))
                  THEN "GREEN" ELSE "DEFAULT"

\* A call before today's reset with a click stored exactly 24 h before it.
C2_Witness ==
  /\ eval_out = Some("GREEN")
  /\ EvalValid
  /\ now < EvalTodayReset
  /\ eval_in.last_reset_timestamp = Some(Timestamp(EvalTodayReset - (24 * 3600)))

\* C5: a shortcut with no refresh_time is DEFAULT at every now, whatever its
\* last_reset_timestamp.
C5_NoRefreshTimeIsDefault ==
  (eval_out # None /\ eval_in.refresh_time_str \in {None, Some(<<>>)}) =>
    eval_out[1] = "DEFAULT"

\* A call for a shortcut without refresh_time that carries a timestamp.
C5_Witness ==
  /\ eval_out = Some("DEFAULT")
  /\ eval_in.refresh_time_str = None
  /\ eval_in.last_reset_timestamp # None

\* C6: for every malformed refresh_time string the function returns DEFAULT
\* and raises nothing.
C6_MalformedIsDefault ==
  (eval_out # None /\ \E s \in MalformedRefreshTimes : eval_in.refresh_time_str = Some(s)) =>
    eval_out[1] = "DEFAULT"

\* C7: with refresh_time 00:00 the state is RED or GREEN at every instant,
\* and RED when there is no last_reset_timestamp (as at 00:00:01).
C7_MidnightNeverDefault ==
  (eval_out # None /\ eval_in.refresh_time_str = Some(<<"0", "0", ":", "0", "0">>)) =>
    /\ eval_out[1] \in {"RED", "GREEN"}
    /\ eval_in.last_reset_timestamp = None => eval_out[1] = "RED"

\* The scenario itself: 00:00, never clicked, one second past midnight.
C7_Witness ==
  /\ eval_out = Some("RED")
  /\ eval_in.refresh_time_str = Some(<<"0", "0", ":", "0", "0">>)
  /\ eval_in.last_reset_timestamp = None
  /\ now = Combine(DateOf(now), 1)

\* ======================================================================
\* Properties of the shortcut operations
\* ======================================================================

\* The refresh time of a stored shortcut is a time of day.
HasValidRefreshTime(shortcut) ==
  \E v \in ValidRefreshTimes : shortcut.refresh_time_str = Some(v.str)

\* today_reset of a stored shortcut at the clock's now.
TodayResetOf(shortcut) ==
  Combine(DateOf(now),
          (CHOOSE v \in ValidRefreshTimes : shortcut.refresh_time_str = Some(v.str)).tod)

\* C3: a shortcut that is RED at now = today_reset and is clicked (the store
\* taking the timestamp) is GREEN at the next evaluation at the same now.
C3_ClickAtResetTurnsGreen ==
  [][\A id \in DOMAIN web_shortcuts :
       ( /\ HasValidRefreshTime(web_shortcuts[id])
         /\ now = TodayResetOf(web_shortcuts[id])
         /\ _determine_web_button_state(web_shortcuts[id], now) = "RED"
         /\ last_click' = Some(id) )
       => /\ now' = now
          /\ web_shortcuts'[id].last_reset_timestamp = Some(Timestamp(now))
          /\ _determine_web_button_state(web_shortcuts'[id], now') = "GREEN"
          /\ web_buttons'[id] = "GREEN"]_vars

\* A click was just stored at now = today_reset, and the button is green.
C3_Witness ==
  \E id \in DOMAIN web_shortcuts :
    /\ last_click = Some(id)
    /\ HasValidRefreshTime(web_shortcuts[id])
    /\ now = TodayResetOf(web_shortcuts[id])
    /\ web_buttons[id] = "GREEN"

\* C4: an edit that leaves the shortcut without refresh_time stores no
\* last_reset_timestamp; from then until the next stored click, also after a
\* refresh_time is set again, the state is never GREEN: RED when
\* now >= today_reset, DEFAULT when now < today_reset.
C4_RemovalClearsTimestamp ==
  \A id \in unclicked_since_removal :
    /\ id \in DOMAIN web_shortcuts
    /\ web_shortcuts[id].last_reset_timestamp = None
    /\ web_buttons[id] # "GREEN"
    /\ _determine_web_button_state(web_shortcuts[id], now) # "GREEN"
    /\ HasValidRefreshTime(web_shortcuts[id]) =>
         _determine_web_button_state(web_shortcuts[id], now) =
           IF now >= TodayResetOf(web_shortcuts[id]) THEN "RED" ELSE "DEFAULT"

\* A refresh time was removed and set again, no click since: the button is red.
C4_Witness ==
  \E id \in unclicked_since_removal :
    /\ HasValidRefreshTime(web_shortcuts[id])
    /\ now >= TodayResetOf(web_shortcuts[id])
    /\ web_buttons[id] = "RED"

\* ======================================================================
\* Properties of the task status column
\* ======================================================================

\* The rows of the table whose task the monitor does not report running.
IdleRows == {id \in DOMAIN process_table \cap DOMAIN managed_processes : id \notin running}

\* last_played_timestamp of a stored task on the model's local clock.
LastPlayedOf(id) == managed_processes[id].last_played_timestamp[1] - OriginTs

\* C8: whenever the liveness monitor reports a task running, the status shown
\* for it is RUNNING, whatever its cycle mode, last_played_timestamp,
\* mandatory times and the time of day.
C8_RunningOverridesCycle ==
  \A id \in DOMAIN process_table : id \in running => process_table[id] = "RUNNING"

\* A rolling task played before, whose cycle has elapsed, shown RUNNING.
C8_Witness ==
  \E id \in DOMAIN process_table \cap DOMAIN managed_processes :
    /\ id \in running
    /\ process_table[id] = "RUNNING"
    /\ managed_processes[id].user_cycle_hours # None
    /\ managed_processes[id].is_mandatory_time_enabled
    /\ managed_processes[id].last_played_timestamp # None
    /\ table_now - LastPlayedOf(id) >= managed_processes[id].user_cycle_hours[1] * 3600

\* The rows of tasks in daily-reset mode with mandatory times disabled.
DailyResetRows ==
  {id \in IdleRows : /\ managed_processes[id].server_reset_time_str # None
                     /\ ~managed_processes[id].is_mandatory_time_enabled}

\* hour * 3600 + minute * 60 of a well-formed "HH:MM".
SecondsOfDay(str) ==
  (((DigitVal(str[1]) * 10) + DigitVal(str[2])) * 3600)
    + (((DigitVal(str[4]) * 10) + DigitVal(str[5])) * 60)

\* Today's reset instant if the table was drawn at or after today's reset
\* time of day, yesterday's otherwise.
DailyCycleStart(id) ==
  LET reset == SecondsOfDay(managed_processes[id].server_reset_time_str[1])
      midnight == table_now - (table_now % DayLen)
  IN  IF table_now % DayLen >= reset THEN midnight + reset
      ELSE (midnight - DayLen) + reset

\* C9: a non-running task in daily-reset mode with mandatory times disabled is
\* COMPLETED iff last_played_timestamp exists and is at or after the current
\* cycle start (today's reset if now is at or after it, yesterday's otherwise),
\* and INCOMPLETE otherwise.
C9_DailyResetCompletedIff ==
  \A id \in DailyResetRows :
    /\ process_table[id] \in {"COMPLETED", "INCOMPLETE"}
    /\ process_table[id] = "COMPLETED" <=>
         /\ managed_processes[id].last_played_timestamp # None
         /\ LastPlayedOf(id) >= DailyCycleStart(id)

\* Played exactly at today's 06:00 reset and drawn after it: COMPLETED.
C9_Witness ==
  \E id \in DailyResetRows :
    /\ managed_processes[id].last_played_timestamp # None
    /\ table_now % DayLen >= 6 * 3600
    /\ LastPlayedOf(id) = DailyCycleStart(id)
    /\ process_table[id] = "COMPLETED"

\* The rows of tasks in rolling-cycle mode.
RollingRows ==
  {id \in IdleRows : /\ managed_processes[id].server_reset_time_str = None
                     /\ managed_processes[id].user_cycle_hours # None}

\* The rolling cycle of the row has elapsed when the table was drawn.
CycleElapsed(id) ==
  table_now - LastPlayedOf(id) >= managed_processes[id].user_cycle_hours[1] * 3600

\* A mandatory time of day of the row occurred after the last play and at or
\* before the drawing of the table.
MandatoryTimePassedSincePlay(id) ==
  \E d \in 0..(MaxDay + 1), m \in managed_processes[id].mandatory_times_str :
    /\ LastPlayedOf(id) < (d * DayLen) + SecondsOfDay(m)
    /\ (d * DayLen) + SecondsOfDay(m) <= table_now

MandatoryRowsPlayedInCycle ==
  {id \in IdleRows :
     /\ managed_processes[id].is_mandatory_time_enabled
     /\ managed_processes[id].last_played_timestamp # None
     /\ LastPlayedOf(id) <= table_now
     /\ IF managed_processes[id].server_reset_time_str # None
        THEN LastPlayedOf(id) >= DailyCycleStart(id)
        ELSE managed_processes[id].user_cycle_hours # None /\ ~CycleElapsed(id)}

\* The start of the cycle such a row is in.
CycleStartOfRow(id) ==
  IF managed_processes[id].server_reset_time_str # None THEN DailyCycleStart(id)
  ELSE LastPlayedOf(id)

\* The occurrences of the row's mandatory times of day from the start of its
\* cycle up to the drawing of the table.
MandatoryInstantsDue(id) ==
  {t \in {(d * DayLen) + SecondsOfDay(m) :
            d \in 0..(MaxDay + 1), m \in managed_processes[id].mandatory_times_str} :
     CycleStartOfRow(id) <= t /\ t <= table_now}

\* C11: with mandatory times enabled, a non-running task completed in the
\* current cycle is COMPLETED iff last_played_timestamp is at or after every
\* mandatory instant of the cycle that is at or before now; a mandatory time
\* still in the future asks nothing.
C11_MandatoryCompletedIff ==
  \A id \in MandatoryRowsPlayedInCycle :
    /\ process_table[id] \in {"COMPLETED", "INCOMPLETE"}
    /\ process_table[id] = "COMPLETED" <=>
         \A t \in MandatoryInstantsDue(id) : LastPlayedOf(id) >= t

\* Mandatory times 12:00 and 18:00, played at 13:00, drawn at 17:00 of the
\* same day: COMPLETED although 18:00 is a mandatory time.
C11_Witness ==
  \E id \in MandatoryRowsPlayedInCycle :
    /\ managed_processes[id].mandatory_times_str =
         {<<"1", "2", ":", "0", "0">>, <<"1", "8", ":", "0", "0">>}
    /\ LastPlayedOf(id) % DayLen = 13 * 3600
    /\ table_now = LastPlayedOf(id) + (4 * 3600)
    /\ process_table[id] = "COMPLETED"

\* The same task drawn at 19:00: INCOMPLETE.
C11_WitnessAfterEvening ==
  \E id \in MandatoryRowsPlayedInCycle :
    /\ LastPlayedOf(id) % DayLen = 13 * 3600
    /\ table_now = LastPlayedOf(id) + (6 * 3600)
    /\ process_table[id] = "INCOMPLETE"

\* C12: the status of a task is a function of (task, now, settings) alone:
\* when the table is drawn twice for the same stored task at the same now,
\* the row shows the same status both times, whatever happened in between.
C12_StatusPureInTaskNowSettings ==
  [][\A id \in (DOMAIN process_table \cap DOMAIN process_table')
                 \cap (DOMAIN managed_processes \cap DOMAIN managed_processes') :
       (/\ managed_processes'[id] = managed_processes[id]
        /\ table_now' = table_now
        /\ global_settings' = global_settings)
         => process_table'[id] = process_table[id]]_vars

\* ======================================================================
\* Properties of the notifications
\* ======================================================================

\* The stored tasks that have an occurrence key at the instant now: the ones
\* with a daily reset, and the rolling ones played before.
KeyedTasks ==
  {id \in DOMAIN managed_processes :
     \/ managed_processes[id].server_reset_time_str # None
     \/ /\ managed_processes[id].user_cycle_hours # None
        /\ managed_processes[id].last_played_timestamp # None}

\* The occurrence key of such a task at the instant now: the latest reset at
\* or before now, or the end of the rolling cycle once it has passed and the
\* last play before.
KeyNow(id) ==
  IF managed_processes[id].server_reset_time_str # None
  THEN LET reset == SecondsOfDay(managed_processes[id].server_reset_time_str[1])
           midnight == now - (now % DayLen)
       IN  IF now % DayLen >= reset THEN midnight + reset ELSE (midnight - DayLen) + reset
  ELSE LET cycle == managed_processes[id].user_cycle_hours[1] * 3600
       IN  IF now - LastPlayedOf(id) >= cycle THEN LastPlayedOf(id) + cycle
           ELSE LastPlayedOf(id)

\* The tasks a scheduler tick of this step finds INCOMPLETE with an occurrence
\* key: the tick draws the table at the instant it evaluated them.
DueInTick ==
  {id \in KeyedTasks : id \in DOMAIN process_table' /\ process_table'[id] = "INCOMPLETE"}

\* The notifier was called for the task in this step.
Emitted(id) ==
  /\ id \in DOMAIN sent'
  /\ id \in DOMAIN sent => sent'[id] # sent[id]

\* The instant now lies in the sleep window of the settings.
Asleep ==
  /\ global_settings.sleep_start_time_str # None
  /\ global_settings.sleep_end_time_str # None
  /\ LET start == SecondsOfDay(global_settings.sleep_start_time_str[1])
         end == SecondsOfDay(global_settings.sleep_end_time_str[1])
         tod == now % DayLen
     IN  IF start <= end THEN start <= tod /\ tod < end
         ELSE start <= tod \/ tod < end

\* C13: for each task and occurrence key the notifier is called exactly once
\* over any number of ticks in which the task stays INCOMPLETE: the key last
\* sent was sent once and is the key marked notified; a notification is only
\* emitted for a key other than the one marked; the mark only changes when
\* the notification for the new key is emitted; and a tick outside the sleep
\* window leaves every task it finds INCOMPLETE marked with its current key.
C13_OneNotificationPerOccurrence ==
  /\ [](\A id \in DOMAIN sent :
          /\ sent[id].times = 1
          /\ id \in DOMAIN notified /\ notified[id] = sent[id].key)
  /\ [][\A id \in ProcessIds :
          /\ Emitted(id) =>
               /\ id \in KeyedTasks /\ sent'[id].key = KeyNow(id)
               /\ id \in DOMAIN notified => notified[id] # KeyNow(id)
          /\ (id \in DOMAIN notified' /\ (id \in DOMAIN notified => notified'[id] # notified[id]))
               => Emitted(id) /\ sent'[id] = [key |-> notified'[id], times |-> 1]
          /\ (~Asleep /\ id \in DueInTick /\ run_scheduler_check)
               => id \in DOMAIN notified' /\ notified'[id] = KeyNow(id)]_vars

\* On day 2 the task was notified for the cycle that began at midnight of day
\* 2, once, and a later tick still shows it INCOMPLETE.
C13_Witness ==
  \E id \in DOMAIN sent :
    /\ sent[id] = [key |-> Combine(2, 0), times |-> 1]
    /\ notified[id] = Combine(2, 0)
    /\ id \in DOMAIN process_table /\ process_table[id] = "INCOMPLETE"
    /\ table_now > Combine(2, 0)

\* C14: while now lies in the sleep window no notification is emitted and no
\* occurrence is marked notified; a tick after now has left the window emits
\* exactly one notification for every occurrence found INCOMPLETE and not
\* notified yet.
C14_SleepWindowSuppression ==
  [][/\ Asleep => (notified' = notified /\ sent' = sent)
     /\ \A id \in ProcessIds :
          (/\ ~Asleep
           /\ id \in DueInTick
           /\ id \in DOMAIN notified => notified[id] # KeyNow(id)
           /\ run_scheduler_check)
            => /\ Emitted(id)
               /\ sent'[id] = [key |-> KeyNow(id), times |-> 1]]_vars

\* At 06:00 of day 2, the end of a sleep window that began at midnight or
\* before, the task has been notified of the cycle that began at midnight
\* and of no earlier one.
C14_Witness ==
  \E id \in DOMAIN sent :
    /\ global_settings.sleep_start_time_str # None
    /\ now = Combine(2, 6 * 3600)
    /\ ~Asleep
    /\ sent[id] = [key |-> Combine(2, 0), times |-> 1]
    /\ table_now = now
    /\ process_table[id] = "INCOMPLETE"

\* ======================================================================
\* Properties of the timers
\* ======================================================================

\* The stored tasks the monitor polls: the ones with a monitoring path.
PolledTasks == {id \in DOMAIN managed_processes : managed_processes[id].monitoring_path # <<>>}

\* The executable of a polled task has a live process.
Live(id) == managed_processes[id].monitoring_path \in os_running

\* C15: in a monitor tick, a polled task seen running before and not live now
\* gets last_played_timestamp = now and nothing else of it changes; every
\* other polled task, one that started included, is left as stored; the
\* table is drawn again when the running state of some task differs from the
\* previous tick, and only then.
C15_LivenessEdges ==
  [][run_process_monitor_check =>
       /\ DOMAIN managed_processes' = DOMAIN managed_processes
       /\ \A id \in PolledTasks :
            /\ (id \in running /\ ~Live(id)) =>
                 managed_processes'[id] =
                   [managed_processes[id] EXCEPT !.last_played_timestamp = Some(now + OriginTs)]
            /\ ~(id \in running /\ ~Live(id)) => managed_processes'[id] = managed_processes[id]
            /\ id \in running' <=> Live(id)
       /\ (\E id \in PolledTasks : (id \in running) # Live(id))
            => /\ table_now' = now
               /\ \A id \in PolledTasks : process_table'[id] = "RUNNING" <=> Live(id)
       /\ (\A id \in PolledTasks : (id \in running) = Live(id))
            => process_table' = process_table /\ table_now' = table_now]_vars

\* A task seen exiting after the first instant: its last_played_timestamp is
\* the instant of the tick that drew the table, and it is shown COMPLETED.
C15_Witness ==
  \E id \in PolledTasks :
    /\ id \notin running
    /\ table_now > Combine(1, 0)
    /\ managed_processes[id].last_played_timestamp = Some(table_now + OriginTs)
    /\ id \in DOMAIN process_table /\ process_table[id] = "COMPLETED"

\* C16: the scheduler evaluates the tasks of a tick after the monitor's poll
\* of that tick: whenever scheduler_timer fires, the running state the
\* evaluation reads for every polled task is the one a poll at this instant
\* reports.
C16_PollBeforeEvaluation ==
  [][run_scheduler_check => \A id \in PolledTasks : (id \in running) = Live(id)]_vars

\* C17: a failing evaluation is not fatal to the tick loop: when the
\* evaluation of one task raises in a monitor or scheduler tick, the timers
\* go on, the failing task keeps the status it showed, and every other task
\* shows the status it has at the instant of the tick.
C17_FailingEvaluationIsolated ==
  [][\A bad \in DOMAIN managed_processes :
       (run_scheduler_check_raising(bad) \/ run_process_monitor_check_raising(bad))
         => /\ event_loop' = "running"
            /\ bad \in DOMAIN process_table => process_table'[bad] = process_table[bad]
            /\ \A id \in DOMAIN managed_processes' \ {bad} :
                 /\ id \in DOMAIN process_table'
                 /\ process_table'[id] =
                      populate_process_list(managed_processes', now, running')[id]]_vars

\* ======================================================================
\* Properties of the store's failures
\* ======================================================================

\* C18: when update_web_shortcut answers false to the click on a shortcut
\* with a refresh time, the record the store holds has the
\* last_reset_timestamp it had before the click, and the state it evaluates
\* to is the same as before.
C18_NoPartialWriteOnFailedClick ==
  [][\A id \in DOMAIN web_shortcuts :
       (/\ ~NoRefreshTime(web_shortcuts[id].refresh_time_str)
        /\ _handle_web_button_clicked(id, FALSE))
         => /\ id \in DOMAIN web_shortcuts'
            /\ web_shortcuts'[id].last_reset_timestamp = web_shortcuts[id].last_reset_timestamp
            /\ _determine_web_button_state(web_shortcuts'[id], now)
                 = _determine_web_button_state(web_shortcuts[id], now)]_vars

\* ======================================================================
\* Properties of the edits
\* ======================================================================

C20_SettingsChangeOnlyByDialog ==
  /\ [](settings_file = global_settings)
  /\ [][/\ (global_settings' # global_settings \/ settings_file' # settings_file)
            => \E upd_gs \in DialogSettings :
                 /\ open_global_settings_dialog(upd_gs)
                 /\ global_settings' = upd_gs
                 /\ settings_file' = upd_gs
        /\ \A upd_gs \in DialogSettings :
             open_global_settings_dialog(upd_gs)
               => global_settings' = upd_gs /\ settings_file' = upd_gs
        /\ GlobalSettingsDialogCancelled
             => global_settings' = global_settings /\ settings_file' = settings_file]_vars

\* A sleep window was set in the dialog and saved, after a notification had
\* been sent under the settings before, and a task is stored.
C20_Witness ==
  /\ global_settings.sleep_start_time_str # None
  /\ settings_file = global_settings
  /\ sent # EmptyMap
  /\ DOMAIN managed_processes # {}

\* ======================================================================
\* Properties of the quit and of the timers' intervals
\* ======================================================================

\* No timer of the running variant is active.
AllTimersStopped ==
  /\ ~IsActive(timers.monitor_timer)
  /\ ~IsActive(timers.scheduler_timer)
  /\ ~IsActive(timers.web_button_refresh_timer)

\* A step of a callback of one of the timers.
TickStep ==
  \/ run_process_monitor_check
  \/ run_scheduler_check
  \/ WebButtonRefreshTimeout
  \/ WidgetApp_run_process_monitor_check
  \/ WidgetApp_run_scheduler_check

\* C21: the quit sequence of either variant leaves no timer active, and once
\* no timer is active they stay stopped, no monitor check, scheduler check or
\* button refresh runs, and the stored tasks, the monitor's running set, the
\* notification keys, the notifications sent, the table and the button
\* styles stay as they are.
C21_NoTickAfterQuit ==
  [][/\ (initiate_quit_sequence \/ quit_application) => AllTimersStopped'
     /\ AllTimersStopped
          => /\ AllTimersStopped'
             /\ ~TickStep
             /\ UNCHANGED <<managed_processes, running, notified, sent, process_table,
                            table_now, web_shortcuts, web_buttons>>]_vars

\* C21 witness: the main window has quit, the clock has passed the refresh
\* time since, and the buttons keep the style of before: a refresh would
\* change them.
C21_Witness ==
  /\ event_loop = "quit"
  /\ timers.variant = "main_window"
  /\ AllTimersStopped
  /\ web_buttons # _refresh_web_button_states(web_buttons, web_shortcuts, now)

\* The intervals, in milliseconds, the two tick timers were started with.
MonitorInterval == timers.monitor_timer[1].interval
SchedulerInterval == timers.scheduler_timer[1].interval

\* C22 as stated: both timers tick every second in the main window and every
\* 10 seconds in the widget application, and the two intervals are equal.
C22_IntervalsAsStated ==
  /\ timers.variant = "main_window" => MonitorInterval = 1000 /\ SchedulerInterval = 1000
  /\ timers.variant = "widget_app" => MonitorInterval = 10000 /\ SchedulerInterval = 10000
  /\ MonitorInterval = SchedulerInterval

\* C22, amended: both timers tick every second in the main window and in the
\* widget application, every 10 seconds in the second copy of the main window
\* and in the main window that precedes the widget application, and in every
\* variant the two intervals are equal, before and after the quit.
C22_IntervalsPerVariant ==
  /\ timers.variant \in {"main_window", "widget_app"}
       => MonitorInterval = 1000 /\ SchedulerInterval = 1000
  /\ timers.variant \in {"main_window_second_copy", "main_window_before_widget"}
       => MonitorInterval = 10000 /\ SchedulerInterval = 10000
  /\ MonitorInterval = SchedulerInterval

\* C22 witness: the widget application's monitor timer has ticked, found the
\* task running, and both its timers are still active.
C22_Witness ==
  /\ timers.variant = "widget_app"
  /\ IsActive(timers.monitor_timer)
  /\ IsActive(timers.scheduler_timer)
  /\ running # {}

\* ======================================================================
\* Properties of the edit under ticks
\* ======================================================================

\* A monitor tick stamped the task's last_played_timestamp while its edit
\* dialog was open: the store holds another value than the dialog's handler
\* read before the dialog opened.
StampedWhileDialogOpen ==
  /\ edit_dialog # None
  /\ edit_dialog[1].pid \in DOMAIN managed_processes
  /\ managed_processes[edit_dialog[1].pid].last_played_timestamp
       # edit_dialog[1].last_played_timestamp

C24_ClickYieldsGreen ==
  [][\A id \in DOMAIN web_shortcuts :
       (last_click' = Some(id) /\ HasValidRefreshTime(web_shortcuts[id]))
         => /\ now' = now
            /\ _determine_web_button_state(web_shortcuts'[id], now') = "GREEN"
            /\ web_buttons'[id] = "GREEN"]_vars

\* C24 witness: a click was just stored before today_reset and the button
\* is green.
C24_Witness ==
  \E id \in DOMAIN web_shortcuts :
    /\ last_click = Some(id)
    /\ HasValidRefreshTime(web_shortcuts[id])
    /\ now < TodayResetOf(web_shortcuts[id])
    /\ web_buttons[id] = "GREEN"

\* The click instant a stored shortcut carries.
ClickInstantOf(shortcut) == FromTimestamp(shortcut.last_reset_timestamp[1])

\* The first occurrence of the time of day tod strictly after the instant t.
NextOccurrence(tod, t) ==
  IF t < Combine(DateOf(t), tod) THEN Combine(DateOf(t), tod)
  ELSE Combine(DateOf(t) + 1, tod)

\* The refresh time of a stored shortcut, in seconds of the day.
RefreshTodOf(shortcut) ==
  (CHOOSE v \in ValidRefreshTimes : shortcut.refresh_time_str = Some(v.str)).tod

\* C25: a shortcut with a valid refresh_time R that carries the click
\* instant t, not clicked or edited since, is GREEN at every now with
\* t <= now < n and RED at now = n, where n is the first occurrence of the
\* time of day R strictly after t.
C25_GreenForOneCycle ==
  \A id \in DOMAIN web_shortcuts :
    LET shortcut == web_shortcuts[id]
    IN  (/\ HasValidRefreshTime(shortcut)
         /\ shortcut.last_reset_timestamp # None
         /\ ClickInstantOf(shortcut) <= now)
          => LET n == NextOccurrence(RefreshTodOf(shortcut), ClickInstantOf(shortcut))
             IN  /\ now < n => _determine_web_button_state(shortcut, now) = "GREEN"
                 /\ now = n => _determine_web_button_state(shortcut, now) = "RED"

\* C25 witness: a shortcut clicked in this run, at or after the clock's
\* start, is evaluated at the first refresh instant after its click.
C25_Witness ==
  \E id \in DOMAIN web_shortcuts :
    /\ HasValidRefreshTime(web_shortcuts[id])
    /\ web_shortcuts[id].last_reset_timestamp # None
    /\ ClickInstantOf(web_shortcuts[id]) >= Combine(1, 0)
    /\ now = NextOccurrence(RefreshTodOf(web_shortcuts[id]), ClickInstantOf(web_shortcuts[id]))
    /\ _determine_web_button_state(web_shortcuts[id], now) = "RED"

\* The last occurrence of the time of day tod at or before the instant t.
PrevOccurrence(tod, t) ==
  IF t >= Combine(DateOf(t), tod) THEN Combine(DateOf(t), tod)
  ELSE Combine(DateOf(t) - 1, tod)

\* The shortcut was not clicked since the last occurrence of its refresh
\* time: it was RED at that instant and nothing has changed it since.
RedSinceLastReset(shortcut) ==
  \/ shortcut.last_reset_timestamp = None
  \/ ClickInstantOf(shortcut) < PrevOccurrence(RefreshTodOf(shortcut), now)

\* C26: a shortcut with a valid refresh_time later than 00:00 that was RED
\* and has not been clicked since is RED from the refresh instant to the end
\* of that calendar day, DEFAULT from 00:00 of the next day until that day's
\* refresh instant, and RED again from then; in particular a shortcut never
\* clicked is DEFAULT before the day's refresh instant and RED from it on.
C26_RedNotRetainedOverMidnight ==
  \A id \in DOMAIN web_shortcuts :
    LET shortcut == web_shortcuts[id]
    IN  (/\ HasValidRefreshTime(shortcut)
         /\ RefreshTodOf(shortcut) > 0
         /\ RedSinceLastReset(shortcut))
          => _determine_web_button_state(shortcut, now)
               = IF now >= TodayResetOf(shortcut) THEN "RED" ELSE "DEFAULT"

\* C26 witness: at 00:00 of the second day a shortcut clicked before
\* yesterday's refresh instant still wears yesterday's red style, and its
\* evaluation is DEFAULT.
C26_Witness ==
  \E id \in DOMAIN web_shortcuts :
    /\ HasValidRefreshTime(web_shortcuts[id])
    /\ RefreshTodOf(web_shortcuts[id]) > 0
    /\ web_shortcuts[id].last_reset_timestamp # None
    /\ now = Combine(2, 0)
    /\ web_buttons[id] = "RED"
    /\ _determine_web_button_state(web_shortcuts[id], now) = "DEFAULT"

\* ======================================================================
\* Properties of the stored shortcuts
\* ======================================================================

\* C27: from a store in which every shortcut without refresh_time has no
\* last_reset_timestamp, after any sequence of additions, edits, clicks and
\* deletions every stored shortcut without refresh_time (None or the empty
\* string) has no last_reset_timestamp.
C27_NoTimestampWithoutRefreshTime ==
  \A id \in DOMAIN web_shortcuts :
    NoRefreshTime(web_shortcuts[id].refresh_time_str)
      => web_shortcuts[id].last_reset_timestamp = None

\* C27 witness: an edit removed the refresh time of a shortcut, which carries
\* no timestamp, while another stored shortcut carries the timestamp of a
\* click of this run.
C27_Witness ==
  \E id \in unclicked_since_removal, other \in DOMAIN web_shortcuts :
    /\ id \in DOMAIN web_shortcuts
    /\ NoRefreshTime(web_shortcuts[id].refresh_time_str)
    /\ web_shortcuts[id].last_reset_timestamp = None
    /\ web_shortcuts[other].last_reset_timestamp # None
    /\ ClickInstantOf(web_shortcuts[other]) >= Combine(1, 0)

\* The test of lines 443 and 452: the clicked id is in the store and its
\* shortcut has a refresh time.
ClickUpdatesStore(id) ==
  /\ id \in DOMAIN web_shortcuts
  /\ ~NoRefreshTime(web_shortcuts[id].refresh_time_str)

C29_EditKeepsTimestamp ==
  [][/\ \A id \in DOMAIN web_shortcuts :
          \A r \in {q \in DialogRefreshTimes : ~NoRefreshTime(q)}, saved \in BOOLEAN :
            _edit_web_shortcut(id, r, saved)
              => /\ DOMAIN web_shortcuts' = DOMAIN web_shortcuts
                 /\ web_shortcuts'[id].last_reset_timestamp
                      = web_shortcuts[id].last_reset_timestamp
                 /\ saved => /\ web_shortcuts'[id].refresh_time_str = r
                             /\ web_buttons'[id] =
                                  _determine_web_button_state(
                                    WebShortcut(r, web_shortcuts[id].last_reset_timestamp), now)
     /\ DialogCancelled => web_shortcuts' = web_shortcuts]_vars

\* C29 witness: a shortcut clicked earlier in this run has a refresh time,
\* the last step was not a click, and its button is red: the state of the
\* click instant it still carries against the refresh time it has now.
C29_Witness ==
  \E id \in DOMAIN web_shortcuts :
    /\ HasValidRefreshTime(web_shortcuts[id])
    /\ web_shortcuts[id].last_reset_timestamp # None
    /\ ClickInstantOf(web_shortcuts[id]) >= Combine(1, 0)
    /\ ClickInstantOf(web_shortcuts[id]) < now
    /\ last_click = None
    /\ web_buttons[id] = "RED"
    /\ _determine_web_button_state(web_shortcuts[id], now) = "RED"

\* ======================================================================
\* Properties of the redraws
\* ======================================================================

\* check_and_update_statuses() returns true: the running state of some task
\* differs from the one of the previous poll.
StatusesChanged ==
  RunningAfterCheck(managed_processes, running, os_running)
    # (running \cap DOMAIN managed_processes)

\* The table as a redraw at the end of this step leaves it.
RedrawnTable == populate_process_list(managed_processes', now, running')

====
